---- MODULE Spec2Model ----
(***************************************************************************)
(* State-machine model of the userbase-server user controller             *)
(* (src/unnamed/part_001): sessions, password check with lockout, the     *)
(* key-possession proof and the application of billing events, all over   *)
(* one users table and one sessions table of a conditional-write store.   *)
(*                                                                         *)
(* Time is counted in days.  An attribute that a record does not carry    *)
(* is NoTime / NoCount / NoId / NoHash / NoStr.                           *)
(***************************************************************************)
EXTENDS Integers, Sequences, FiniteSets, Bags, TLC

(* ------------------------------ bounds -------------------------------- *)
MaxClock == 2
MaxUsers == 2
MaxSessions == 2
MaxPending == 2
MaxAttempts == 26
MaxEventTimestamp == 2
MaxTempPasswords == 1

(* ------------------------- program constants -------------------------- *)
MAX_INCORRECT_PASSWORD_GUESSES == 25
LIMIT_NUM_TRIAL_USERS == 3
\* the clock counts days
MS_IN_A_DAY == 1
SECONDS_IN_A_DAY == MS_IN_A_DAY
SESSION_LENGTH == MS_IN_A_DAY

(* --------------------------- absent values ---------------------------- *)
NoTime == 0 - 1
NoCount == 0 - 1
NoId == 0
NoHash == <<>>
NoStr == "none"

(* ----------------------------- input sets ----------------------------- *)
AppIds == {"app1", "app2"}
AdminIds == {"adm1", "adm2"}
RawUsernames == {"alice", "Alice", "bob", "carol", "dave"}
PasswordTokens == {"pw1", "pw2"}
PublicKeys == {"pk1", "pk2"}
Envs == {"test", "prod"}
Tokens == 1..(2 * MaxSessions + 1)
UserIds == 1..MaxUsers
Procs == {1, 2}
Messages == {"m1", "m2"}

toLowerCase(username) == IF username = "Alice" THEN "alice" ELSE username

Usernames == {toLowerCase(u) : u \in RawUsernames}
UserKeys == AppIds \X Usernames

(* crypto.sha256.hash: one-way and collision-free on the tokens used *)
sha256(token) == <<"sha256", token>>

(* Buffer.toString('base64') of a challenge *)
base64(message) == <<"b64", message>>

(* ------------------------------ records ------------------------------- *)
NoSub ==
  [customerId |-> NoStr, subscriptionId |-> NoStr, planId |-> NoStr,
   status |-> NoStr, cancelAt |-> NoTime, eventTimestamp |-> NoTime]

NoUser ==
  [exists |-> FALSE, userId |-> NoId, passwordToken |-> NoHash,
   tempPasswordToken |-> NoHash, tempPasswordCreationDate |-> NoTime,
   publicKey |-> NoStr, seedNotSavedYet |-> FALSE, email |-> NoStr,
   attempts |-> NoCount, suspendedAt |-> NoTime, deleted |-> FALSE,
   sub |-> [e \in Envs |-> NoSub]]

NoSession ==
  [exists |-> FALSE, authToken |-> NoId, userId |-> NoId, appId |-> NoStr,
   creationDate |-> NoTime, extendedDate |-> NoTime, invalidated |-> FALSE,
   ttl |-> NoTime]

NoApp ==
  [exists |-> FALSE, adminId |-> NoStr, deleted |-> FALSE,
   paymentsMode |-> NoStr, testPlanId |-> NoStr, prodPlanId |-> NoStr]

NoAdmin ==
  [exists |-> FALSE, deleted |-> FALSE, stripeAccountId |-> NoStr,
   saasStatus |-> NoStr, cancelSaasAt |-> NoTime, prodPaymentsEnabled |-> FALSE]

NoProc == [pc |-> "idle"]

VARIABLES
  clock,       \* new Date(), in days
  users,       \* users table, keyed by <<app-id, username>>
  sessions,    \* sessions table, keyed by session-id
  apps,        \* apps table (read only here)
  admins,      \* admins table (read only here)
  nextUserId,  \* uuidv4(): the next unused user id
  nextToken,   \* crypto.randomBytes: the next unused session id / auth token
  pending,     \* bag of issued, not yet applied fire-and-forget user updates
  procs,       \* requests in flight: what each has read so far
  nextTemp,    \* crypto.randomBytes: the next unused temp password
  resp,        \* the response of the latest step
  hist         \* history: the latest successful sign-up, until another step follows
               \* it, and each user's run of incorrect password attempts

vars == <<clock, users, sessions, apps, admins, nextUserId, nextToken,
          pending, procs, nextTemp, resp, hist>>

(* --------------------------- store lookups ---------------------------- *)
getAppByAppId(appId) == IF appId \in AppIds THEN apps[appId] ELSE NoApp

findAdminByAdminId(adminId) == IF adminId \in AdminIds THEN admins[adminId] ELSE NoAdmin

getUser(appId, username) ==
  IF <<appId, username>> \in UserKeys THEN users[<<appId, username>>] ELSE NoUser

\* the user-id index: every record carrying this user id
UsersWithUserId(userId) == {k \in UserKeys : users[k].exists /\ users[k].userId = userId}

UsernameOf(userId) == (CHOOSE k \in UsersWithUserId(userId) : TRUE)[2]

\* "none": no item; "one": exactly one; "many": the fatal integrity violation
getUserByUserIdCount(userId) ==
  IF UsersWithUserId(userId) = {} THEN "none"
  ELSE IF Cardinality(UsersWithUserId(userId)) > 1 THEN "many" ELSE "one"

getUserByUserId(userId) ==
  IF getUserByUserIdCount(userId) = "one"
  THEN users[CHOOSE k \in UsersWithUserId(userId) : TRUE]
  ELSE NoUser

\* a lookup that falls back on the auth-token index
_getSesssion_OrByAuthToken(sessionId) ==
  IF sessionId \in Tokens /\ sessions[sessionId].exists THEN sessions[sessionId]
  ELSE IF \E t \in Tokens : sessions[t].exists /\ sessions[t].authToken = sessionId
  THEN sessions[CHOOSE t \in Tokens : sessions[t].exists /\ sessions[t].authToken = sessionId]
  ELSE NoSession

_getSesssion(sessionId) == IF sessionId \in Tokens THEN sessions[sessionId] ELSE NoSession

countNonDeletedAppUsers(appId) ==
  Cardinality({k \in UserKeys : k[1] = appId /\ users[k].exists /\ ~users[k].deleted})

getTtl(secondsToLive) == clock + secondsToLive

(* ------------------------------ sessions ------------------------------ *)
CanCreateSession == nextToken + 1 <= 2 * MaxSessions

\* a session item written without its user-id
createSession_NoUserId(userId, appId) ==
  [exists |-> TRUE, authToken |-> nextToken + 1, userId |-> NoId, appId |-> appId,
   creationDate |-> clock, extendedDate |-> NoTime, invalidated |-> FALSE,
   ttl |-> getTtl(SECONDS_IN_A_DAY)]

\* the item createSession puts under session id nextToken
createSession(userId, appId) ==
  [exists |-> TRUE, authToken |-> nextToken + 1, userId |-> userId, appId |-> appId,
   creationDate |-> clock, extendedDate |-> NoTime, invalidated |-> FALSE,
   ttl |-> getTtl(SECONDS_IN_A_DAY)]

\* the start of the session taken from its creation alone
sessionStartDate_CreationOnly(session) == session.creationDate

sessionStartDate(session) ==
  IF session.extendedDate # NoTime THEN session.extendedDate ELSE session.creationDate

\* "ok", or the reason _validateSession throws Unauthorized 'Session invalid' with.
\* new Date(undefined) is an invalid date: the difference is NaN and NaN > x is false.
_validateSession(session, now) ==
  IF ~session.exists THEN "doesNotExist"
  ELSE IF session.invalidated THEN "invalidated"
  ELSE IF sessionStartDate(session) # NoTime /\ now - sessionStartDate(session) > SESSION_LENGTH
       THEN "expired"
  ELSE IF session.userId = NoId THEN "isNotUserSession"
  ELSE "ok"

(* --------------------------- password check --------------------------- *)
Write(kind, key) ==
  [kind |-> kind, key |-> key, at |-> IF kind = "_suspendUser" THEN clock ELSE NoTime]

overLimit(user) == user.attempts >= MAX_INCORRECT_PASSWORD_GUESSES

\* the lockout outlasting the day by one tick
limitExceeded_AtMostADay(user, now) ==
  overLimit(user) /\ (user.suspendedAt = NoTime \/ now - user.suspendedAt <= MS_IN_A_DAY)

\* the lockout is in force: the limit is reached and no suspension a day old is stored
limitExceeded(user, now) ==
  overLimit(user) /\ (user.suspendedAt = NoTime \/ now - user.suspendedAt < MS_IN_A_DAY)

\* a temp password that expires once it is a day old
tempPasswordExpired_AtADay(user, now) == now - user.tempPasswordCreationDate >= MS_IN_A_DAY

tempPasswordExpired(user, now) == now - user.tempPasswordCreationDate > MS_IN_A_DAY

\* _validatePassword on the user read under key: what it throws ("none": it returns),
\* whether the temp password was used, and the fire-and-forget updates it issues
_validatePassword(passwordToken, user, key, now) ==
  IF ~user.exists
  THEN [error |-> "User does not exist", usedTempPassword |-> FALSE, writes |-> <<>>]
  ELSE
    LET suspendNow == overLimit(user) /\ user.suspendedAt = NoTime
        locked == limitExceeded(user, now)
        retry == IF overLimit(user) /\ ~locked
                 THEN <<Write("_allowUserToRetryPassword", key)>> ELSE <<>>
        passwordTokenHash == sha256(passwordToken)
        passwordIsCorrect == passwordTokenHash = user.passwordToken
        tempPasswordIsCorrect ==
          user.tempPasswordToken # NoHash /\ passwordTokenHash = user.tempPasswordToken
    IN
    IF locked
    THEN [error |-> "PasswordAttemptLimitExceeded", usedTempPassword |-> FALSE,
          writes |-> IF suspendNow THEN <<Write("_suspendUser", key)>> ELSE <<>>]
    ELSE IF user.passwordToken = NoHash
    THEN [error |-> "TypeError", usedTempPassword |-> FALSE, writes |-> retry]
    ELSE IF passwordIsCorrect
    THEN [error |-> "none", usedTempPassword |-> FALSE,
          writes |-> retry \o <<Write("_allowUserToRetryPassword", key)>>]
    ELSE IF ~tempPasswordIsCorrect
    THEN [error |-> "Incorrect password or temp password", usedTempPassword |-> FALSE,
          writes |-> retry \o <<Write("_incrementIncorrectPasswordAttempt", key)>>]
    ELSE IF tempPasswordExpired(user, now)
    THEN [error |-> "Temp password expired", usedTempPassword |-> FALSE,
          writes |-> retry \o <<Write("_incrementIncorrectPasswordAttempt", key)>>]
    ELSE [error |-> "none", usedTempPassword |-> TRUE, writes |-> retry]

SeqToBag(s) == [w \in {s[i] : i \in 1..Len(s)} |-> Cardinality({i \in 1..Len(s) : s[i] = w})]

CanIssue(writes) == BagCardinality(pending) + Len(writes) <= MaxPending

\* an update that is not issued while the same update is in flight
Issue_UnlessInFlight(writes) ==
  pending' = pending (+) SeqToBag(SelectSeq(writes, LAMBDA w : ~BagIn(w, pending)))

Issue(writes) == pending' = pending (+) SeqToBag(writes)

\* the effect of one issued update on the item under its key; an update carries no
\* condition expression, so on a missing item it creates one
\* a reset of the counter that leaves the suspension in place
_allowUserToRetryPassword_KeepsSuspension(user) ==
  [user EXCEPT !.exists = TRUE, !.attempts = 0]

_allowUserToRetryPassword(user) ==
  [user EXCEPT !.exists = TRUE, !.suspendedAt = NoTime, !.attempts = 0]

_suspendUser(user, at) == [user EXCEPT !.exists = TRUE, !.suspendedAt = at]

\* a counter that is set to 1 when it is absent and is never added to
_incrementIncorrectPasswordAttempt_SetIfAbsent(user) ==
  [user EXCEPT !.exists = TRUE,
               !.attempts = IF user.attempts = NoCount THEN 1 ELSE user.attempts]

_incrementIncorrectPasswordAttempt(user) ==
  [user EXCEPT !.exists = TRUE,
               !.attempts = IF user.attempts = NoCount THEN 1 ELSE user.attempts + 1]

ApplyWrite(w, user) ==
  IF w.kind = "_allowUserToRetryPassword" THEN _allowUserToRetryPassword(user)
  ELSE IF w.kind = "_suspendUser" THEN _suspendUser(user, w.at)
  ELSE _incrementIncorrectPasswordAttempt(user)

NoFresh == [key |-> <<NoStr, NoStr>>, userId |-> NoId, passwordToken |-> NoStr]

Forget == hist' = [hist EXCEPT !.fresh = NoFresh]

\* the first proofs of key possession made for one userId, and those that succeeded
Proved(proofs, isFirstProof, succeeded) ==
  IF ~isFirstProof THEN proofs
  ELSE [made |-> proofs.made + 1, ok |-> proofs.ok + IF succeeded THEN 1 ELSE 0]

\* the user's run of incorrect attempts after a check that threw this error: a check
\* that passes by the password or is refused by the lockout ends the run, one that
\* passes by the temp password leaves it
Counted(key, error, usedTempPassword) ==
  IF key \notin UserKeys \/ usedTempPassword THEN hist.wrongInRow
  ELSE IF error \in {"Incorrect password or temp password", "Temp password expired"}
  THEN [hist.wrongInRow EXCEPT ![key] = @ + 1]
  ELSE [hist.wrongInRow EXCEPT ![key] = 0]

Checked(key, error, usedTempPassword) ==
  hist' = [hist EXCEPT !.fresh = NoFresh,
                       !.wrongInRow = Counted(key, error, usedTempPassword)]

(* ------------------------------- signUp ------------------------------- *)
\* TRUE when _validateSubscription throws Payment Required 'TrialExceededLimit'
_validateSubscription(status, cancelAt, appId) ==
  LET unpaidSubscription == status # "active" \/ cancelAt # NoTime
  IN unpaidSubscription /\ countNonDeletedAppUsers(appId) >= LIMIT_NUM_TRIAL_USERS

\* the item and the condition of the put that signUp makes
\* the put without its condition
_buildSignUpParams_Unconditioned(username, passwordToken, appId, userId, publicKey, email) ==
  [Item |-> [NoUser EXCEPT !.exists = TRUE, !.userId = userId,
                           !.passwordToken = sha256(passwordToken),
                           !.publicKey = publicKey, !.seedNotSavedYet = TRUE,
                           !.email = email],
   Condition |-> TRUE]

\* a put that keeps the user id of the item it overwrites
_buildSignUpParams_KeepsUserId(username, passwordToken, appId, userId, publicKey, email) ==
  [Item |-> [NoUser EXCEPT !.exists = TRUE,
                           !.userId = IF users[<<appId, username>>].exists
                                      THEN users[<<appId, username>>].userId ELSE userId,
                           !.passwordToken = sha256(passwordToken),
                           !.publicKey = publicKey, !.seedNotSavedYet = TRUE,
                           !.email = email],
   Condition |-> ~users[<<appId, username>>].exists
                 \/ users[<<appId, username>>].seedNotSavedYet]

_buildSignUpParams(username, passwordToken, appId, userId, publicKey, email) ==
  [Item |-> [NoUser EXCEPT !.exists = TRUE, !.userId = userId,
                           !.passwordToken = sha256(passwordToken),
                           !.publicKey = publicKey, !.seedNotSavedYet = TRUE,
                           !.email = email],
   Condition |-> ~users[<<appId, username>>].exists
                 \/ users[<<appId, username>>].seedNotSavedYet]

SignUpResponse(appId, key, status, message, userId, sessionId) ==
  [op |-> "signUp", appId |-> appId, key |-> key, status |-> status,
   message |-> message, userId |-> userId, sessionId |-> sessionId,
   replaced |-> users[key].exists]

signUp(appId, rawUsername, passwordToken, publicKey, email) ==
  LET key == <<appId, toLowerCase(rawUsername)>>
      app == getAppByAppId(appId)
      admin == findAdminByAdminId(app.adminId)
      params == _buildSignUpParams(key[2], passwordToken, appId, nextUserId, publicKey, email)
      fail(status, message) ==
        /\ resp' = SignUpResponse(appId, key, status, message, NoId, NoId)
        /\ Forget
        /\ UNCHANGED <<clock, users, sessions, apps, admins, nextUserId, nextToken,
                       pending, procs, nextTemp>>
  IN
  IF ~app.exists \/ app.deleted THEN fail("Unauthorized", "App ID not valid")
  ELSE IF ~admin.exists \/ admin.deleted THEN fail("Unauthorized", "App ID not valid")
  ELSE IF _validateSubscription(admin.saasStatus, admin.cancelSaasAt, appId)
  THEN fail("Payment Required", "TrialExceededLimit")
  ELSE IF ~params.Condition THEN fail("Conflict", "UsernameAlreadyExists")
  ELSE
    /\ nextUserId <= MaxUsers
    /\ CanCreateSession
    /\ users' = [users EXCEPT ![key] = params.Item]
    /\ sessions' = [sessions EXCEPT ![nextToken] = createSession(nextUserId, appId)]
    /\ nextUserId' = nextUserId + 1
    /\ nextToken' = nextToken + 2
    /\ resp' = SignUpResponse(appId, key, "Success", "none", nextUserId, nextToken)
    /\ hist' = [hist EXCEPT !.fresh = [key |-> key, userId |-> nextUserId,
                                       passwordToken |-> passwordToken],
                            !.wrongInRow[key] = 0]
    /\ UNCHANGED <<clock, apps, admins, pending, procs, nextTemp>>

(* ---------------- signUp, as the steps between its awaits -------------- *)
\* signUp up to its put: the app, the admin and the count of the app's users are
\* read and checked
signUpValidate(p, appId, rawUsername, passwordToken, publicKey, email) ==
  LET key == <<appId, toLowerCase(rawUsername)>>
      app == getAppByAppId(appId)
      admin == findAdminByAdminId(app.adminId)
      fail(status, message) ==
        /\ resp' = SignUpResponse(appId, key, status, message, NoId, NoId)
        /\ UNCHANGED <<procs, nextUserId>>
  IN
  /\ procs[p].pc = "idle"
  /\ IF ~app.exists \/ app.deleted THEN fail("Unauthorized", "App ID not valid")
     ELSE IF ~admin.exists \/ admin.deleted THEN fail("Unauthorized", "App ID not valid")
     ELSE IF _validateSubscription(admin.saasStatus, admin.cancelSaasAt, appId)
     THEN fail("Payment Required", "TrialExceededLimit")
     ELSE /\ nextUserId <= MaxUsers
          /\ resp' = SignUpResponse(appId, key, "Pending", "none", NoId, NoId)
          /\ nextUserId' = nextUserId + 1
          /\ procs' = [procs EXCEPT ![p] =
                         [pc |-> "signUp", key |-> key, appId |-> appId, userId |-> nextUserId,
                          passwordToken |-> passwordToken, publicKey |-> publicKey,
                          email |-> email]]
  /\ Forget
  /\ UNCHANGED <<clock, users, sessions, apps, admins, nextToken, pending, nextTemp>>

\* the conditional put of signUp and the session that follows it
signUpPut(p) ==
  LET q == procs[p]
      params == _buildSignUpParams(q.key[2], q.passwordToken, q.appId, q.userId,
                                   q.publicKey, q.email)
  IN
  /\ q.pc = "signUp"
  /\ IF ~params.Condition
     THEN /\ resp' = SignUpResponse(q.appId, q.key, "Conflict", "UsernameAlreadyExists",
                                    NoId, NoId)
          /\ Forget
          /\ UNCHANGED <<users, sessions, nextToken>>
     ELSE /\ CanCreateSession
          /\ users' = [users EXCEPT ![q.key] = params.Item]
          /\ sessions' = [sessions EXCEPT ![nextToken] = createSession(q.userId, q.appId)]
          /\ nextToken' = nextToken + 2
          /\ resp' = SignUpResponse(q.appId, q.key, "Success", "none", q.userId, nextToken)
          /\ hist' = [hist EXCEPT !.fresh = [key |-> q.key, userId |-> q.userId,
                                             passwordToken |-> q.passwordToken],
                                  !.wrongInRow[q.key] = 0]
  /\ procs' = [procs EXCEPT ![p] = NoProc]
  /\ UNCHANGED <<clock, apps, admins, nextUserId, pending, nextTemp>>

(* ------------------------------- signIn ------------------------------- *)
SignInResponse(appId, key, passwordToken, check, status, message, userId, sessionId, usedTemp) ==
  [op |-> "signIn", appId |-> appId, key |-> key, passwordToken |-> passwordToken,
   check |-> check, status |-> status, message |-> message, userId |-> userId,
   sessionId |-> sessionId, usedTempPassword |-> usedTemp, fresh |-> hist.fresh,
   wrongBefore |-> IF key \in UserKeys THEN hist.wrongInRow[key] ELSE 0]

\* a sign-in that removes the temp password it was given
signIn_TempPasswordConsumed(appId, rawUsername, passwordToken) ==
  LET key == <<appId, toLowerCase(rawUsername)>>
      app == getAppByAppId(appId)
      admin == findAdminByAdminId(app.adminId)
      user == getUser(appId, key[2])
      check == _validatePassword(passwordToken, user, key, clock)
      fail(status, message, checked) ==
        /\ CanIssue(IF checked THEN check.writes ELSE <<>>)
        /\ Issue(IF checked THEN check.writes ELSE <<>>)
        /\ resp' = SignInResponse(appId, key, passwordToken,
                                  IF checked THEN check.error ELSE "skipped",
                                  status, message, NoId, NoId, FALSE)
        /\ IF checked THEN Checked(key, check.error, FALSE) ELSE Forget
        /\ UNCHANGED <<clock, users, sessions, apps, admins, nextUserId, nextToken, procs, nextTemp>>
  IN
  IF ~app.exists \/ app.deleted THEN fail("Unauthorized", "App ID not valid", FALSE)
  ELSE IF ~admin.exists \/ admin.deleted THEN fail("Unauthorized", "App ID not valid", FALSE)
  ELSE IF check.error = "PasswordAttemptLimitExceeded"
  THEN fail("Unauthorized", "PasswordAttemptLimitExceeded", TRUE)
  ELSE IF check.error # "none" THEN fail("Unauthorized", "Invalid password", TRUE)
  ELSE IF user.deleted THEN fail("Forbidden", "User pending deletion", TRUE)
  ELSE
    /\ CanIssue(check.writes)
    /\ CanCreateSession
    /\ Issue(check.writes)
    /\ sessions' = [sessions EXCEPT ![nextToken] = createSession(user.userId, appId)]
    /\ nextToken' = nextToken + 2
    /\ resp' = SignInResponse(appId, key, passwordToken, "none", "Success", "none",
                              user.userId, nextToken, check.usedTempPassword)
    /\ Checked(key, "none", check.usedTempPassword)
    /\ users' = IF check.usedTempPassword
                THEN [users EXCEPT ![key].tempPasswordToken = NoHash,
                                   ![key].tempPasswordCreationDate = NoTime]
                ELSE users
    /\ UNCHANGED <<clock, apps, admins, nextUserId, procs, nextTemp>>

\* the sign-in without its test of the deleted flag
signIn_DeletedUserSignsIn(appId, rawUsername, passwordToken) ==
  LET key == <<appId, toLowerCase(rawUsername)>>
      app == getAppByAppId(appId)
      admin == findAdminByAdminId(app.adminId)
      user == getUser(appId, key[2])
      check == _validatePassword(passwordToken, user, key, clock)
      fail(status, message, checked) ==
        /\ CanIssue(IF checked THEN check.writes ELSE <<>>)
        /\ Issue(IF checked THEN check.writes ELSE <<>>)
        /\ resp' = SignInResponse(appId, key, passwordToken,
                                  IF checked THEN check.error ELSE "skipped",
                                  status, message, NoId, NoId, FALSE)
        /\ IF checked THEN Checked(key, check.error, FALSE) ELSE Forget
        /\ UNCHANGED <<clock, users, sessions, apps, admins, nextUserId, nextToken, procs, nextTemp>>
  IN
  IF ~app.exists \/ app.deleted THEN fail("Unauthorized", "App ID not valid", FALSE)
  ELSE IF ~admin.exists \/ admin.deleted THEN fail("Unauthorized", "App ID not valid", FALSE)
  ELSE IF check.error = "PasswordAttemptLimitExceeded"
  THEN fail("Unauthorized", "PasswordAttemptLimitExceeded", TRUE)
  ELSE IF check.error # "none" THEN fail("Unauthorized", "Invalid password", TRUE)
  ELSE
    /\ CanIssue(check.writes)
    /\ CanCreateSession
    /\ Issue(check.writes)
    /\ sessions' = [sessions EXCEPT ![nextToken] = createSession(user.userId, appId)]
    /\ nextToken' = nextToken + 2
    /\ resp' = SignInResponse(appId, key, passwordToken, "none", "Success", "none",
                              user.userId, nextToken, check.usedTempPassword)
    /\ Checked(key, "none", check.usedTempPassword)
    /\ UNCHANGED <<clock, users, apps, admins, nextUserId, procs, nextTemp>>

signIn(appId, rawUsername, passwordToken) ==
  LET key == <<appId, toLowerCase(rawUsername)>>
      app == getAppByAppId(appId)
      admin == findAdminByAdminId(app.adminId)
      user == getUser(appId, key[2])
      check == _validatePassword(passwordToken, user, key, clock)
      fail(status, message, checked) ==
        /\ CanIssue(IF checked THEN check.writes ELSE <<>>)
        /\ Issue(IF checked THEN check.writes ELSE <<>>)
        /\ resp' = SignInResponse(appId, key, passwordToken,
                                  IF checked THEN check.error ELSE "skipped",
                                  status, message, NoId, NoId, FALSE)
        /\ IF checked THEN Checked(key, check.error, FALSE) ELSE Forget
        /\ UNCHANGED <<clock, users, sessions, apps, admins, nextUserId, nextToken, procs, nextTemp>>
  IN
  IF ~app.exists \/ app.deleted THEN fail("Unauthorized", "App ID not valid", FALSE)
  ELSE IF ~admin.exists \/ admin.deleted THEN fail("Unauthorized", "App ID not valid", FALSE)
  ELSE IF check.error = "PasswordAttemptLimitExceeded"
  THEN fail("Unauthorized", "PasswordAttemptLimitExceeded", TRUE)
  ELSE IF check.error # "none" THEN fail("Unauthorized", "Invalid password", TRUE)
  ELSE IF user.deleted THEN fail("Forbidden", "User pending deletion", TRUE)
  ELSE
    /\ CanIssue(check.writes)
    /\ CanCreateSession
    /\ Issue(check.writes)
    /\ sessions' = [sessions EXCEPT ![nextToken] = createSession(user.userId, appId)]
    /\ nextToken' = nextToken + 2
    /\ resp' = SignInResponse(appId, key, passwordToken, "none", "Success", "none",
                              user.userId, nextToken, check.usedTempPassword)
    /\ Checked(key, "none", check.usedTempPassword)
    /\ UNCHANGED <<clock, users, apps, admins, nextUserId, procs, nextTemp>>

(* ----------------------- getPasswordSaltsController ------------------- *)
\* the salts are returned even if the user is deleted
getPasswordSaltsController(appId, rawUsername) ==
  LET key == <<appId, toLowerCase(rawUsername)>>
      app == getAppByAppId(appId)
      admin == findAdminByAdminId(app.adminId)
      user == getUser(appId, key[2])
      respond(status, message) ==
        resp' = [op |-> "getPasswordSalts", appId |-> appId, key |-> key,
                 status |-> status, message |-> message]
  IN
  /\ IF ~app.exists \/ app.deleted THEN respond("Unauthorized", "App ID not valid")
     ELSE IF ~admin.exists \/ admin.deleted THEN respond("Unauthorized", "App ID not valid")
     ELSE IF ~user.exists THEN respond("Unauthorized", "User not found")
     ELSE respond("Success", "none")
  /\ Forget
  /\ UNCHANGED <<clock, users, sessions, apps, admins, nextUserId, nextToken, pending,
                 procs, nextTemp>>

(* ------------------------------ updateUser ---------------------------- *)
\* a condition on the presence of the item alone
conditionCheckUserExists_AnyUserId(key, userId) == users[key].exists

\* an update, delete or put condition "the item still exists with this user id"
conditionCheckUserExists(key, userId) == users[key].exists /\ users[key].userId = userId

UpdateUserResponse(userId, key, currentPasswordToken, check, status, message) ==
  [op |-> "updateUser", userId |-> userId, key |-> key,
   passwordToken |-> currentPasswordToken, check |-> check,
   status |-> status, message |-> message,
   wrongBefore |-> IF key \in UserKeys THEN hist.wrongInRow[key] ELSE 0]

\* updateUser up to its write: the read by user id and the check of the current
\* password.  username / passwordToken are NoStr when the request leaves them out.
updateUserRead(p, userId, rawUsername, currentPasswordToken, passwordToken) ==
  LET found == getUserByUserIdCount(userId)
      user == getUserByUserId(userId)
      key == IF found = "one" THEN CHOOSE k \in UsersWithUserId(userId) : TRUE
             ELSE <<NoStr, NoStr>>
      check == _validatePassword(currentPasswordToken, user, key, clock)
      respond(check_, status, message, writes) ==
        /\ CanIssue(writes)
        /\ Issue(writes)
        /\ resp' = UpdateUserResponse(userId, key, currentPasswordToken, check_, status, message)
        /\ IF check_ = "skipped" THEN Forget
           ELSE Checked(key, check_, check.usedTempPassword)
        /\ UNCHANGED <<clock, users, sessions, apps, admins, nextUserId, nextToken, nextTemp>>
  IN
  /\ procs[p].pc = "idle"
  /\ rawUsername # NoStr \/ passwordToken # NoStr
  /\ IF found = "many"
     THEN respond("skipped", "Internal Server Error", "Failed to update user", <<>>)
          /\ UNCHANGED procs
     ELSE IF found = "none" \/ user.deleted
     THEN respond("skipped", "Not Found", "UserNotFound", <<>>) /\ UNCHANGED procs
     ELSE IF passwordToken # NoStr /\ check.error = "PasswordAttemptLimitExceeded"
     \* status(...) is no function of the module: the ReferenceError reaches the outer catch
     THEN respond(check.error, "Internal Server Error", "Failed to update user", check.writes)
          /\ UNCHANGED procs
     ELSE IF passwordToken # NoStr /\ check.error # "none"
     THEN respond(check.error, "Bad Request", "CurrentPasswordIncorrect", check.writes)
          /\ UNCHANGED procs
     ELSE /\ respond(IF passwordToken # NoStr THEN "none" ELSE "skipped", "Pending", "none",
                     IF passwordToken # NoStr THEN check.writes ELSE <<>>)
          /\ procs' = [procs EXCEPT ![p] =
                         [pc |-> "updateUser", user |-> user, key |-> key, userId |-> userId,
                          username |-> rawUsername, passwordToken |-> passwordToken]]

\* an item built anew from the request instead of from the old item
updatedUser_WithoutOldUser(oldUser, passwordToken) ==
  [NoUser EXCEPT !.exists = TRUE,
                 !.passwordToken = IF passwordToken # NoStr THEN sha256(passwordToken)
                                   ELSE oldUser.passwordToken]

\* the item _updateUserIncludingUsernameUpdate puts under the new username
updatedUser(oldUser, passwordToken) ==
  IF passwordToken # NoStr
  THEN [oldUser EXCEPT !.passwordToken = sha256(passwordToken)]
  ELSE oldUser

\* the transaction with a Put that carries no condition
_updateUserIncludingUsernameUpdate_PutUnconditioned(p, newKey) ==
  LET q == procs[p]
  IN
  IF ~conditionCheckUserExists(q.key, q.userId)
  THEN /\ resp' = UpdateUserResponse(q.userId, q.key, NoStr, "skipped", "Not Found", "UserNotFound")
       /\ UNCHANGED users
  ELSE /\ users' = [users EXCEPT ![q.key] = NoUser,
                                 ![newKey] = updatedUser(q.user, q.passwordToken)]
       /\ resp' = UpdateUserResponse(q.userId, newKey, NoStr, "skipped", "Success", "none")

_updateUserIncludingUsernameUpdate(p, newKey) ==
  LET q == procs[p]
      deleteOk == conditionCheckUserExists(q.key, q.userId)
      putOk == ~users[newKey].exists \/ users[newKey].seedNotSavedYet
  IN
  IF ~deleteOk
  THEN /\ resp' = UpdateUserResponse(q.userId, q.key, NoStr, "skipped", "Not Found", "UserNotFound")
       /\ UNCHANGED users
  ELSE IF ~putOk
  THEN /\ resp' = UpdateUserResponse(q.userId, q.key, NoStr, "skipped", "Conflict",
                                     "UsernameAlreadyExists")
       /\ UNCHANGED users
  ELSE /\ users' = [users EXCEPT ![q.key] = NoUser,
                                 ![newKey] = updatedUser(q.user, q.passwordToken)]
       /\ resp' = UpdateUserResponse(q.userId, newKey, NoStr, "skipped", "Success", "none")

_updateUserExcludingUsernameUpdate(p) ==
  LET q == procs[p]
  IN
  IF ~conditionCheckUserExists(q.key, q.userId)
  THEN /\ resp' = UpdateUserResponse(q.userId, q.key, NoStr, "skipped", "Not Found", "UserNotFound")
       /\ UNCHANGED users
  ELSE /\ users' = [users EXCEPT ![q.key].passwordToken = sha256(q.passwordToken)]
       /\ resp' = UpdateUserResponse(q.userId, q.key, NoStr, "skipped", "Success", "none")

\* the write that ends updateUser
updateUserWrite(p) ==
  LET q == procs[p]
  IN
  /\ q.pc = "updateUser"
  /\ IF q.username # NoStr /\ toLowerCase(q.username) # q.key[2]
     THEN _updateUserIncludingUsernameUpdate(p, <<q.key[1], toLowerCase(q.username)>>)
     ELSE IF q.passwordToken # NoStr
     THEN _updateUserExcludingUsernameUpdate(p)
     ELSE /\ resp' = UpdateUserResponse(q.userId, q.key, NoStr, "skipped", "Success", "none")
          /\ UNCHANGED users
  /\ procs' = [procs EXCEPT ![p] = NoProc]
  /\ Forget
  /\ UNCHANGED <<clock, sessions, apps, admins, nextUserId, nextToken, pending, nextTemp>>


(* ---------------------------- authenticateUser ------------------------ *)
\* lookedUp: the sessions table was read with the session id given
AuthResponse(sessionId, appId, status, message, next, lookedUp) ==
  [op |-> "authenticateUser", sessionId |-> sessionId, appId |-> appId,
   status |-> status, message |-> message, next |-> next, lookedUp |-> lookedUp]

\* the check of the user without its test of the deleted flag
authenticateUser_DeletedUserPasses(p, sessionId, appId) ==
  LET session == _getSesssion(sessionId)
      found == getUserByUserIdCount(session.userId)
      user == getUserByUserId(session.userId)
      app == getAppByAppId(session.appId)
      admin == findAdminByAdminId(app.adminId)
      deny(status, message) ==
        /\ resp' = AuthResponse(sessionId, appId, status, message, FALSE, TRUE)
        /\ UNCHANGED procs
  IN
  /\ procs[p].pc = "idle"
  /\ IF sessionId = NoId \/ appId = NoStr
     THEN /\ resp' = AuthResponse(sessionId, appId, "Unauthorized",
                                  "Missing session token or app id", FALSE, FALSE)
          /\ UNCHANGED procs
     ELSE IF _validateSession(session, clock) # "ok" THEN deny("Unauthorized", "Session invalid")
     ELSE IF session.appId # appId THEN deny("Unauthorized", "App ID not valid")
     ELSE IF found = "many" THEN deny("Internal Server Error", "Failed to authenticate user")
     ELSE IF ~user.exists THEN deny("Unauthorized", "Session invalid")
     ELSE IF ~app.exists \/ app.deleted THEN deny("Unauthorized", "App ID not valid")
     ELSE IF ~admin.exists \/ admin.deleted THEN deny("Unauthorized", "App ID not valid")
     ELSE /\ resp' = AuthResponse(sessionId, appId, "Success", "none", TRUE, TRUE)
          \* res.locals, handed to the next route
          /\ procs' = [procs EXCEPT ![p] =
                         [pc |-> "authenticated", sessionId |-> sessionId, user |-> user,
                          key |-> CHOOSE k \in UsersWithUserId(session.userId) : TRUE,
                          app |-> app, admin |-> admin, authToken |-> session.authToken]]
  /\ Forget
  /\ UNCHANGED <<clock, users, sessions, apps, admins, nextUserId, nextToken, pending, nextTemp>>

authenticateUser(p, sessionId, appId) ==
  LET session == _getSesssion(sessionId)
      found == getUserByUserIdCount(session.userId)
      user == getUserByUserId(session.userId)
      app == getAppByAppId(session.appId)
      admin == findAdminByAdminId(app.adminId)
      deny(status, message) ==
        /\ resp' = AuthResponse(sessionId, appId, status, message, FALSE, TRUE)
        /\ UNCHANGED procs
  IN
  /\ procs[p].pc = "idle"
  /\ IF sessionId = NoId \/ appId = NoStr
     THEN /\ resp' = AuthResponse(sessionId, appId, "Unauthorized",
                                  "Missing session token or app id", FALSE, FALSE)
          /\ UNCHANGED procs
     ELSE IF _validateSession(session, clock) # "ok" THEN deny("Unauthorized", "Session invalid")
     ELSE IF session.appId # appId THEN deny("Unauthorized", "App ID not valid")
     ELSE IF found = "many" THEN deny("Internal Server Error", "Failed to authenticate user")
     ELSE IF ~user.exists \/ user.deleted THEN deny("Unauthorized", "Session invalid")
     ELSE IF ~app.exists \/ app.deleted THEN deny("Unauthorized", "App ID not valid")
     ELSE IF ~admin.exists \/ admin.deleted THEN deny("Unauthorized", "App ID not valid")
     ELSE /\ resp' = AuthResponse(sessionId, appId, "Success", "none", TRUE, TRUE)
          \* res.locals, handed to the next route
          /\ procs' = [procs EXCEPT ![p] =
                         [pc |-> "authenticated", sessionId |-> sessionId, user |-> user,
                          key |-> CHOOSE k \in UsersWithUserId(session.userId) : TRUE,
                          app |-> app, admin |-> admin, authToken |-> session.authToken]]
  /\ Forget
  /\ UNCHANGED <<clock, users, sessions, apps, admins, nextUserId, nextToken, pending, nextTemp>>

(* ------------------------- signOut, extendSession --------------------- *)
\* an update without a condition creates the item when there is none
signOut(sessionId) ==
  /\ sessions' = [sessions EXCEPT ![sessionId].exists = TRUE, ![sessionId].invalidated = TRUE]
  /\ resp' = [op |-> "signOut", sessionId |-> sessionId, status |-> "Success"]
  /\ Forget
  /\ UNCHANGED <<clock, users, apps, admins, nextUserId, nextToken, pending, procs, nextTemp>>

\* the extension also clearing the invalidated flag
extendSession_Revalidating(p) ==
  LET q == procs[p]
  IN
  /\ q.pc = "authenticated"
  /\ sessions' = [sessions EXCEPT ![q.sessionId].exists = TRUE,
                                  ![q.sessionId].extendedDate = clock,
                                  ![q.sessionId].invalidated = FALSE,
                                  ![q.sessionId].ttl = getTtl(SECONDS_IN_A_DAY)]
  /\ resp' = [op |-> "extendSession", sessionId |-> q.sessionId, status |-> "Success",
              extendedDate |-> clock, authToken |-> q.authToken, userId |-> q.user.userId]
  /\ procs' = [procs EXCEPT ![p] = NoProc]
  /\ Forget
  /\ UNCHANGED <<clock, users, apps, admins, nextUserId, nextToken, pending, nextTemp>>

\* the extension refused when the user has been deleted or suspended meanwhile
extendSession_RecheckingUser(p) ==
  LET q == procs[p]
      user == getUserByUserId(q.user.userId)
  IN
  /\ q.pc = "authenticated"
  /\ IF user.exists /\ ~user.deleted /\ user.suspendedAt = NoTime
     THEN /\ sessions' = [sessions EXCEPT ![q.sessionId].exists = TRUE,
                                          ![q.sessionId].extendedDate = clock,
                                          ![q.sessionId].ttl = getTtl(SECONDS_IN_A_DAY)]
          /\ resp' = [op |-> "extendSession", sessionId |-> q.sessionId, status |-> "Success",
                      extendedDate |-> clock, authToken |-> q.authToken,
                      userId |-> q.user.userId]
     ELSE /\ UNCHANGED sessions
          /\ resp' = [op |-> "extendSession", sessionId |-> q.sessionId,
                      status |-> "Unauthorized", extendedDate |-> NoTime,
                      authToken |-> q.authToken, userId |-> q.user.userId]
  /\ procs' = [procs EXCEPT ![p] = NoProc]
  /\ Forget
  /\ UNCHANGED <<clock, users, apps, admins, nextUserId, nextToken, pending, nextTemp>>

\* the extension also writing the user id and the auth token of the request
extendSession_WritesUserId(p) ==
  LET q == procs[p]
  IN
  /\ q.pc = "authenticated"
  /\ sessions' = [sessions EXCEPT ![q.sessionId].exists = TRUE,
                                  ![q.sessionId].userId = q.user.userId,
                                  ![q.sessionId].authToken = q.authToken,
                                  ![q.sessionId].extendedDate = clock,
                                  ![q.sessionId].ttl = getTtl(SECONDS_IN_A_DAY)]
  /\ resp' = [op |-> "extendSession", sessionId |-> q.sessionId, status |-> "Success",
              extendedDate |-> clock, authToken |-> q.authToken, userId |-> q.user.userId]
  /\ procs' = [procs EXCEPT ![p] = NoProc]
  /\ Forget
  /\ UNCHANGED <<clock, users, apps, admins, nextUserId, nextToken, pending, nextTemp>>

extendSession(p) ==
  LET q == procs[p]
  IN
  /\ q.pc = "authenticated"
  /\ sessions' = [sessions EXCEPT ![q.sessionId].exists = TRUE,
                                  ![q.sessionId].extendedDate = clock,
                                  ![q.sessionId].ttl = getTtl(SECONDS_IN_A_DAY)]
  /\ resp' = [op |-> "extendSession", sessionId |-> q.sessionId, status |-> "Success",
              extendedDate |-> clock, authToken |-> q.authToken, userId |-> q.user.userId]
  /\ procs' = [procs EXCEPT ![p] = NoProc]
  /\ Forget
  /\ UNCHANGED <<clock, users, apps, admins, nextUserId, nextToken, pending, nextTemp>>

(* ------------------------------ validateKey --------------------------- *)
\* the update conditioned on the userId and the public key alone
userSavedSeed_FlagNotRequired(userId, key, publicKey) ==
  /\ users[key].exists
  /\ users[key].userId = userId
  /\ users[key].publicKey = publicKey

\* the condition of userSavedSeed's update
userSavedSeed(userId, key, publicKey) ==
  /\ users[key].exists
  /\ users[key].seedNotSavedYet
  /\ users[key].userId = userId
  /\ users[key].publicKey = publicKey

ValidateKeyResponse(q, matched, status, message, keyValidated) ==
  [op |-> "validateKey", key |-> q.key, userId |-> q.user.userId,
   publicKey |-> q.user.publicKey, matched |-> matched,
   firstProof |-> q.user.seedNotSavedYet, status |-> status, message |-> message,
   keyValidated |-> keyValidated]

validateKey(p, validationMessage, userProvidedValidationMessage) ==
  LET q == procs[p]
      user == q.user
  IN
  /\ q.pc = "authenticated"
  /\ IF base64(validationMessage) # userProvidedValidationMessage
     THEN /\ resp' = ValidateKeyResponse(q, FALSE, "Unauthorized", "Failed to validate key", FALSE)
          /\ UNCHANGED users
     ELSE IF user.seedNotSavedYet /\ ~userSavedSeed(user.userId, q.key, user.publicKey)
     THEN /\ resp' = ValidateKeyResponse(q, TRUE, "Unauthorized", "Invalid seed", FALSE)
          /\ UNCHANGED users
     ELSE /\ users' = IF user.seedNotSavedYet
                      THEN [users EXCEPT ![q.key].seedNotSavedYet = FALSE]
                      ELSE users
          \* conn.validateKey() marks the connection
          /\ resp' = ValidateKeyResponse(q, TRUE, "Success", "none", TRUE)
  /\ procs' = [procs EXCEPT ![p] = NoProc]
  /\ hist' = [hist EXCEPT !.fresh = NoFresh,
                          !.proofs[user.userId] =
                            Proved(@, base64(validationMessage) = userProvidedValidationMessage
                                      /\ user.seedNotSavedYet,
                                   userSavedSeed(user.userId, q.key, user.publicKey))]
  /\ UNCHANGED <<clock, sessions, apps, admins, nextUserId, nextToken, pending, nextTemp>>

(* --------------------------- verifyAuthToken -------------------------- *)
\* the auth-token index: every session item carrying this auth token
SessionsWithAuthToken(authToken) ==
  {t \in Tokens : sessions[t].exists /\ sessions[t].authToken = authToken}

\* the one item found, or none (null)
_getSessionByAuthToken(authToken) ==
  IF Cardinality(SessionsWithAuthToken(authToken)) = 1
  THEN sessions[CHOOSE t \in SessionsWithAuthToken(authToken) : TRUE]
  ELSE NoSession

\* a string of the length of an auth token
_validateAuthToken(authToken) == authToken \in Tokens

\* more than one session carries the auth token: `authToken.subString(0, 8)` is
\* no function of a string, so building the message throws a TypeError and the
\* logger.fatal that follows is not reached
_getSessionByAuthTokenLogsFatal == FALSE

\* more than one user has the user id: the message is built, logged with
\* logger.fatal and thrown
getUserByUserIdLogsFatal == TRUE

\* lookedUp: the auth-token index was queried with the auth token given;
\* fatal: an entry of fatal severity was logged
VerifyResponse(adminId, authToken, status, message, lookedUp, fatal) ==
  [op |-> "verifyAuthToken", adminId |-> adminId, authToken |-> authToken,
   status |-> status, message |-> message, lookedUp |-> lookedUp, fatal |-> fatal]

\* the verification without its test of the app's owner
verifyAuthToken_AnyAdmin(adminId, authToken) ==
  LET carrying == SessionsWithAuthToken(authToken)
      session == _getSessionByAuthToken(authToken)
      found == getUserByUserIdCount(session.userId)
      user == getUserByUserId(session.userId)
      app == getAppByAppId(session.appId)
      respond(status, message) ==
        resp' = VerifyResponse(adminId, authToken, status, message, TRUE, FALSE)
      raise(fatal) ==
        resp' = VerifyResponse(adminId, authToken, "Internal Server Error",
                               "Failed to verify auth token.", TRUE, fatal)
  IN
  /\ IF ~_validateAuthToken(authToken)
     THEN resp' = VerifyResponse(adminId, authToken, "Bad Request",
                                 "Auth token is incorrect length.", FALSE, FALSE)
     ELSE IF Cardinality(carrying) > 1
     THEN raise(_getSessionByAuthTokenLogsFatal)
     ELSE IF _validateSession(session, clock) # "ok"
     THEN respond("Unauthorized", "Auth token invalid.")
     ELSE IF found = "many"
     THEN raise(getUserByUserIdLogsFatal)
     ELSE IF ~app.exists THEN respond("Not Found", "App not found.")
     ELSE IF app.deleted THEN respond("Not Found", "App was deleted.")
     ELSE IF ~user.exists THEN respond("Not Found", "User not found.")
     ELSE IF user.deleted THEN respond("Not Found", "User was deleted.")
     ELSE respond("Success", "Auth token verified!")
  /\ Forget
  /\ UNCHANGED <<clock, users, sessions, apps, admins, nextUserId, nextToken, pending,
                 procs, nextTemp>>

\* the admin is the caller, authenticated by the route before this handler
verifyAuthToken(adminId, authToken) ==
  LET carrying == SessionsWithAuthToken(authToken)
      session == _getSessionByAuthToken(authToken)
      found == getUserByUserIdCount(session.userId)
      user == getUserByUserId(session.userId)
      app == getAppByAppId(session.appId)
      respond(status, message) ==
        resp' = VerifyResponse(adminId, authToken, status, message, TRUE, FALSE)
      raise(fatal) ==
        resp' = VerifyResponse(adminId, authToken, "Internal Server Error",
                               "Failed to verify auth token.", TRUE, fatal)
  IN
  /\ IF ~_validateAuthToken(authToken)
     THEN resp' = VerifyResponse(adminId, authToken, "Bad Request",
                                 "Auth token is incorrect length.", FALSE, FALSE)
     ELSE IF Cardinality(carrying) > 1
     THEN raise(_getSessionByAuthTokenLogsFatal)
     ELSE IF _validateSession(session, clock) # "ok"
     THEN respond("Unauthorized", "Auth token invalid.")
     ELSE IF found = "many"
     THEN raise(getUserByUserIdLogsFatal)
     ELSE IF app.exists /\ app.adminId # adminId
     THEN respond("Unauthorized", "Auth token invalid.")
     ELSE IF ~app.exists THEN respond("Not Found", "App not found.")
     ELSE IF app.deleted THEN respond("Not Found", "App was deleted.")
     ELSE IF ~user.exists THEN respond("Not Found", "User not found.")
     ELSE IF user.deleted THEN respond("Not Found", "User was deleted.")
     ELSE respond("Success", "Auth token verified!")
  /\ Forget
  /\ UNCHANGED <<clock, users, sessions, apps, admins, nextUserId, nextToken, pending,
                 procs, nextTemp>>

(* --------------------------- admin user routes ------------------------ *)
\* "ok" for a string of the length of a UUID, else the message thrown
_validateUserId(userId) ==
  IF userId = NoId THEN "User ID missing."
  ELSE IF userId \notin UserIds THEN "User ID is incorrect length."
  ELSE "ok"

\* lookedUp: the user-id index was queried with the user id given
AdminGetUserResponse(adminId, userId, status, message, lookedUp) ==
  [op |-> "adminGetUser", adminId |-> adminId, userId |-> userId,
   status |-> status, message |-> message, lookedUp |-> lookedUp]

\* the admin is the caller, authenticated by the route before this handler;
\* deleted users are returned
adminGetUserController(adminId, userId) ==
  LET found == getUserByUserIdCount(userId)
      user == getUserByUserId(userId)
      key == CHOOSE k \in UsersWithUserId(userId) : TRUE
      app == getAppByAppId(key[1])
      respond(status, message) ==
        resp' = AdminGetUserResponse(adminId, userId, status, message, TRUE)
  IN
  /\ IF _validateUserId(userId) # "ok"
     THEN resp' = AdminGetUserResponse(adminId, userId, "Bad Request",
                                       _validateUserId(userId), FALSE)
     ELSE IF found = "many"
     THEN respond("Internal Server Error", "Failed to retrieve user for admin.")
     ELSE IF found = "none" THEN respond("Not Found", "User not found.")
     ELSE IF ~app.exists \/ app.deleted THEN respond("Not Found", "User not found.")
     ELSE IF app.adminId # adminId THEN respond("Forbidden", "User not found.")
     ELSE respond("Success", "none")
  /\ Forget
  /\ UNCHANGED <<clock, users, sessions, apps, admins, nextUserId, nextToken, pending,
                 procs, nextTemp>>

(* ------------------------------ deleteUser ---------------------------- *)
deleteUserController(userId) ==
  LET found == getUserByUserIdCount(userId)
      user == getUserByUserId(userId)
      key == CHOOSE k \in UsersWithUserId(userId) : TRUE
      respond(status, message) ==
        resp' = [op |-> "deleteUser", userId |-> userId, status |-> status, message |-> message]
  IN
  /\ IF found = "many"
     THEN respond("Internal Server Error", "Failed to delete user") /\ UNCHANGED users
     ELSE IF found = "none" \/ user.deleted
     THEN respond("Not Found", "UserNotFound") /\ UNCHANGED users
     ELSE /\ users' = [users EXCEPT ![key].deleted = TRUE]
          /\ respond("Success", "none")
  /\ Forget
  /\ UNCHANGED <<clock, sessions, apps, admins, nextUserId, nextToken, pending, procs, nextTemp>>

(* --------------------------- permanentDelete -------------------------- *)
\* the purge of a user read earlier under key with this user id: the Delete of
\* the transaction is conditioned on the deleted flag and the user id
permanentDelete(key, userId) ==
  /\ IF users[key].exists /\ users[key].deleted /\ users[key].userId = userId
     THEN /\ users' = [users EXCEPT ![key] = NoUser]
          /\ resp' = [op |-> "permanentDelete", key |-> key, userId |-> userId,
                      outcome |-> "deleted"]
     ELSE /\ UNCHANGED users
          /\ resp' = [op |-> "permanentDelete", key |-> key, userId |-> userId,
                      outcome |-> "raised"]
  /\ Forget
  /\ UNCHANGED <<clock, sessions, apps, admins, nextUserId, nextToken, pending, procs, nextTemp>>

(* --------------- apps and admins change (other controllers) ----------- *)
deleteApp(appId) ==
  /\ apps[appId].exists
  /\ \E gone \in BOOLEAN :
       apps' = [apps EXCEPT ![appId] = IF gone THEN NoApp ELSE [@ EXCEPT !.deleted = TRUE]]
  /\ resp' = [op |-> "deleteApp", appId |-> appId]
  /\ Forget
  /\ UNCHANGED <<clock, users, sessions, admins, nextUserId, nextToken, pending, procs, nextTemp>>

deleteAdmin(adminId) ==
  /\ admins[adminId].exists
  /\ \E gone \in BOOLEAN :
       admins' = [admins EXCEPT ![adminId] = IF gone THEN NoAdmin ELSE [@ EXCEPT !.deleted = TRUE]]
  /\ resp' = [op |-> "deleteAdmin", adminId |-> adminId]
  /\ Forget
  /\ UNCHANGED <<clock, users, sessions, apps, nextUserId, nextToken, pending, procs, nextTemp>>


(* ------------------------ updateSubscriptionInDdb --------------------- *)
Env(isProduction) == IF isProduction THEN "prod" ELSE "test"

appPlanId(app, isProduction) == IF isProduction THEN app.prodPlanId ELSE app.testPlanId

\* a billing event as the webhook hands it over
Events ==
  [userId : UserIds, adminId : AdminIds, appId : AppIds, customerId : {"cus1"},
   subscriptionId : {"sub1", "sub2"}, planId : {"plan1", "plan2"},
   status : {"active", "past_due"}, cancelAt : {NoTime, 1},
   eventTimestamp : 1..MaxEventTimestamp, isProduction : BOOLEAN,
   stripeAccountId : {"acct1", "acct2"}]

\* the update conditioned on a timestamp not older than the stored one
_buildStripeSubscriptionDdbParams_NotOlder(key, userId, e) ==
  [Condition |->
     /\ conditionCheckUserExists(key, userId)
     /\ \/ users[key].sub[Env(e.isProduction)].eventTimestamp = NoTime
        \/ users[key].sub[Env(e.isProduction)].eventTimestamp <= e.eventTimestamp,
   Sub |-> [customerId |-> e.customerId, subscriptionId |-> e.subscriptionId,
            planId |-> e.planId, status |-> e.status,
            cancelAt |-> e.cancelAt, eventTimestamp |-> e.eventTimestamp]]

\* the update conditioned on the user alone: the event handled last is stored
_buildStripeSubscriptionDdbParams_LastEventWins(key, userId, e) ==
  [Condition |-> conditionCheckUserExists(key, userId),
   Sub |-> [customerId |-> e.customerId, subscriptionId |-> e.subscriptionId,
            planId |-> e.planId, status |-> e.status,
            cancelAt |-> e.cancelAt, eventTimestamp |-> e.eventTimestamp]]

\* the condition and the new subscription fields of the update
_buildStripeSubscriptionDdbParams(key, userId, e) ==
  [Condition |->
     /\ conditionCheckUserExists(key, userId)
     /\ \/ users[key].sub[Env(e.isProduction)].eventTimestamp = NoTime
        \/ users[key].sub[Env(e.isProduction)].eventTimestamp < e.eventTimestamp,
   Sub |-> [customerId |-> e.customerId, subscriptionId |-> e.subscriptionId,
            planId |-> e.planId, status |-> e.status,
            cancelAt |-> e.cancelAt, eventTimestamp |-> e.eventTimestamp]]

SubscriptionResponse(e, key, outcome) ==
  [op |-> "updateSubscriptionInDdb", event |-> e, key |-> key, outcome |-> outcome]

\* the checks without the one of the Stripe account the event arrived from
updateSubscriptionRead_AnyStripeAccount(p, e) ==
  LET admin == findAdminByAdminId(e.adminId)
      app == getAppByAppId(e.appId)
      found == getUserByUserIdCount(e.userId)
      user == getUserByUserId(e.userId)
      key == CHOOSE k \in UsersWithUserId(e.userId) : TRUE
      end(outcome) ==
        resp' = SubscriptionResponse(e, <<NoStr, NoStr>>, outcome) /\ UNCHANGED procs
  IN
  /\ procs[p].pc = "idle"
  /\ IF found = "many" THEN end("raised")
     ELSE IF ~admin.exists \/ ~app.exists \/ ~user.exists THEN end("dropped")
     ELSE IF app.adminId # e.adminId THEN end("dropped")
     ELSE IF key[1] # e.appId THEN end("dropped")
     ELSE IF appPlanId(app, e.isProduction) # e.planId THEN end("dropped")
     ELSE /\ resp' = SubscriptionResponse(e, key, "pending")
          /\ procs' = [procs EXCEPT ![p] =
                         \* of the user read, the update uses the key and the user id
                         [pc |-> "updateSubscription", event |-> e, userId |-> user.userId,
                          key |-> key]]
  /\ Forget
  /\ UNCHANGED <<clock, users, sessions, apps, admins, nextUserId, nextToken, pending, nextTemp>>

\* the reads and the checks of the metadata; outcome "dropped": logged, returns normally
updateSubscriptionRead(p, e) ==
  LET admin == findAdminByAdminId(e.adminId)
      app == getAppByAppId(e.appId)
      found == getUserByUserIdCount(e.userId)
      user == getUserByUserId(e.userId)
      key == CHOOSE k \in UsersWithUserId(e.userId) : TRUE
      end(outcome) ==
        resp' = SubscriptionResponse(e, <<NoStr, NoStr>>, outcome) /\ UNCHANGED procs
  IN
  /\ procs[p].pc = "idle"
  /\ IF found = "many" THEN end("raised")
     ELSE IF ~admin.exists \/ ~app.exists \/ ~user.exists THEN end("dropped")
     ELSE IF app.adminId # e.adminId THEN end("dropped")
     ELSE IF key[1] # e.appId THEN end("dropped")
     ELSE IF admin.stripeAccountId # e.stripeAccountId THEN end("dropped")
     ELSE IF appPlanId(app, e.isProduction) # e.planId THEN end("dropped")
     ELSE /\ resp' = SubscriptionResponse(e, key, "pending")
          /\ procs' = [procs EXCEPT ![p] =
                         \* of the user read, the update uses the key and the user id
                         [pc |-> "updateSubscription", event |-> e, userId |-> user.userId,
                          key |-> key]]
  /\ Forget
  /\ UNCHANGED <<clock, users, sessions, apps, admins, nextUserId, nextToken, pending, nextTemp>>

\* the conditional update; a rejected condition is no case of the switch: it is rethrown
updateSubscriptionWrite(p) ==
  LET q == procs[p]
      params == _buildStripeSubscriptionDdbParams(q.key, q.userId, q.event)
  IN
  /\ q.pc = "updateSubscription"
  /\ IF params.Condition
     THEN /\ users' = [users EXCEPT ![q.key].sub[Env(q.event.isProduction)] = params.Sub]
          /\ resp' = SubscriptionResponse(q.event, q.key, "applied")
     ELSE /\ UNCHANGED users
          /\ resp' = SubscriptionResponse(q.event, q.key, "raised")
  /\ procs' = [procs EXCEPT ![p] = NoProc]
  /\ Forget
  /\ UNCHANGED <<clock, sessions, apps, admins, nextUserId, nextToken, pending, nextTemp>>


(* ---------------------------- forgotPassword -------------------------- *)
\* the password token the client derives from the n-th temp password
\* (_generateTempPasswordToken: scrypt, then hkdf)
_generateTempPasswordToken(n) == <<"tmp1", "tmp2", "tmp3", "tmp4">>[n]

ForgotResponse(op, key, status, message, tempPasswordToken, emailed) ==
  [op |-> op, key |-> key, status |-> status, message |-> message,
   tempPasswordToken |-> tempPasswordToken, emailed |-> emailed]

\* the username is looked up as given
generateForgotPasswordToken(p, appId, username, validationMessage) ==
  LET app == getAppByAppId(appId)
      admin == findAdminByAdminId(app.adminId)
      user == getUser(appId, username)
      key == <<appId, username>>
      fail(status, message) ==
        /\ resp' = ForgotResponse("generateForgotPasswordToken", key, status, message,
                                  NoStr, FALSE)
        /\ UNCHANGED procs
  IN
  /\ procs[p].pc = "idle"
  /\ IF ~app.exists \/ app.deleted THEN fail("Unauthorized", "AppIdNotValid")
     ELSE IF ~admin.exists \/ admin.deleted THEN fail("Unauthorized", "AppIdNotValid")
     ELSE IF ~user.exists \/ user.deleted THEN fail("Not Found", "UserNotFound")
     ELSE IF user.email = NoStr THEN fail("Not Found", "UserEmailNotFound")
     ELSE /\ resp' = ForgotResponse("generateForgotPasswordToken", key, "Success", "none",
                                    NoStr, FALSE)
          /\ procs' = [procs EXCEPT ![p] =
                         [pc |-> "forgotPassword", user |-> user, key |-> key, app |-> app,
                          forgotPasswordToken |-> validationMessage]]
  /\ Forget
  /\ UNCHANGED <<clock, users, sessions, apps, admins, nextUserId, nextToken, pending,
                 nextTemp>>

\* the update of _setTempPasswordToken without its condition
_setTempPasswordToken_Unconditioned(key, userId, tempPasswordToken) ==
  [Condition |-> TRUE,
   Item |-> [users[key] EXCEPT !.exists = TRUE,
                               !.tempPasswordToken = sha256(tempPasswordToken),
                               !.tempPasswordCreationDate = clock]]

\* the conditional update of _setTempPasswordToken
_setTempPasswordToken(key, userId, tempPasswordToken) ==
  [Condition |-> conditionCheckUserExists(key, userId),
   Item |-> [users[key] EXCEPT !.tempPasswordToken = sha256(tempPasswordToken),
                               !.tempPasswordCreationDate = clock]]

forgotPassword(p, userProvidedForgotPasswordToken) ==
  LET q == procs[p]
      tempPasswordToken == _generateTempPasswordToken(nextTemp)
      params == _setTempPasswordToken(q.key, q.user.userId, tempPasswordToken)
  IN
  /\ q.pc = "forgotPassword"
  /\ IF base64(q.forgotPasswordToken) # userProvidedForgotPasswordToken
     THEN /\ resp' = ForgotResponse("forgotPassword", q.key, "Unauthorized", "KeyNotValid",
                                    NoStr, FALSE)
          /\ UNCHANGED <<users, nextTemp>>
     ELSE /\ nextTemp <= MaxTempPasswords
          /\ nextTemp' = nextTemp + 1
          /\ IF params.Condition
             THEN /\ users' = [users EXCEPT ![q.key] = params.Item]
                  \* the email goes out after the update
                  /\ resp' = ForgotResponse("forgotPassword", q.key, "Success", "none",
                                            tempPasswordToken, TRUE)
             ELSE /\ UNCHANGED users
                  /\ resp' = ForgotResponse("forgotPassword", q.key, "Internal Server Error",
                                            "Failed to forget password", NoStr, FALSE)
  /\ procs' = [procs EXCEPT ![p] = NoProc]
  /\ Forget
  /\ UNCHANGED <<clock, sessions, apps, admins, nextUserId, nextToken, pending>>


(* ------------------- the store applies an issued update --------------- *)
ApplyBookkeeping(w) ==
  /\ BagIn(w, pending)
  /\ w.kind = "_incrementIncorrectPasswordAttempt" => users[w.key].attempts < MaxAttempts
  /\ users' = [users EXCEPT ![w.key] = ApplyWrite(w, users[w.key])]
  /\ pending' = pending (-) SetToBag({w})
  /\ resp' = [op |-> "bookkeeping", key |-> w.key, kind |-> w.kind]
  /\ Forget
  /\ UNCHANGED <<clock, sessions, apps, admins, nextUserId, nextToken, procs, nextTemp>>

\* an issued update that the table refuses: its promise rejects, and nothing
\* awaits it or handles the rejection
FailBookkeeping(w) ==
  /\ BagIn(w, pending)
  /\ pending' = pending (-) SetToBag({w})
  /\ resp' = [op |-> "bookkeepingFailed", key |-> w.key, kind |-> w.kind]
  /\ Forget
  /\ UNCHANGED <<clock, users, sessions, apps, admins, nextUserId, nextToken, procs, nextTemp>>

\* the store removes a session whose ttl has passed, at some time after that
ExpirySweep(sessionId) ==
  /\ sessions[sessionId].exists
  /\ sessions[sessionId].ttl # NoTime
  /\ clock > sessions[sessionId].ttl
  /\ sessions' = [sessions EXCEPT ![sessionId] = NoSession]
  /\ resp' = [op |-> "expirySweep", sessionId |-> sessionId]
  /\ Forget
  /\ UNCHANGED <<clock, users, apps, admins, nextUserId, nextToken, pending, procs, nextTemp>>

Tick ==
  /\ clock < MaxClock
  /\ clock' = clock + 1
  /\ resp' = [op |-> "tick"]
  /\ UNCHANGED <<users, sessions, apps, admins, nextUserId, nextToken, pending, procs, nextTemp, hist>>

(* ---------------------------- validatePayment ------------------------ *)
\* adminController.prodPaymentsEnabled: the admin's prod payments are switched on
prodPaymentsEnabled(admin) == admin.prodPaymentsEnabled

NoPaymentError == [status |-> "none", name |-> "none"]

\* the error thrown with the inactive subscription tested before the plan
_throwPaymentErrors_InactiveFirst(subscriptionPlanNotSet, subscriptionNotFound, subscribedToIncorrectPlan, subscriptionInactive) ==
  IF subscriptionPlanNotSet THEN [status |-> "Forbidden", name |-> "SubscriptionPlanNotSet"]
  ELSE IF subscriptionNotFound THEN [status |-> "Not Found", name |-> "SubscriptionNotFound"]
  ELSE IF subscriptionInactive
  THEN [status |-> "Payment Required", name |-> "SubscriptionInactive"]
  ELSE IF subscribedToIncorrectPlan
  THEN [status |-> "Payment Required", name |-> "SubscribedToIncorrectPlan"]
  ELSE NoPaymentError

\* the error thrown, or NoPaymentError when the function returns
_throwPaymentErrors(subscriptionPlanNotSet, subscriptionNotFound, subscribedToIncorrectPlan, subscriptionInactive) ==
  IF subscriptionPlanNotSet THEN [status |-> "Forbidden", name |-> "SubscriptionPlanNotSet"]
  ELSE IF subscriptionNotFound THEN [status |-> "Not Found", name |-> "SubscriptionNotFound"]
  ELSE IF subscribedToIncorrectPlan
  THEN [status |-> "Payment Required", name |-> "SubscribedToIncorrectPlan"]
  ELSE IF subscriptionInactive
  THEN [status |-> "Payment Required", name |-> "SubscriptionInactive"]
  ELSE NoPaymentError

\* what validatePayment throws for this user, app and admin
validatePayment(user, app, admin) ==
  IF app.paymentsMode # "prod" /\ app.paymentsMode # "test" THEN NoPaymentError
  ELSE IF app.paymentsMode = "prod" /\ ~prodPaymentsEnabled(admin) THEN NoPaymentError
  ELSE
    LET prefix == IF app.paymentsMode = "prod" THEN "prod" ELSE "test"
        appPlan == IF prefix = "prod" THEN app.prodPlanId ELSE app.testPlanId
        subscriptionPlanNotSet == appPlan = NoStr
        subscriptionNotFound == user.sub[prefix].planId = NoStr
        subscribedToIncorrectPlan == appPlan # user.sub[prefix].planId
        subscriptionStatus == user.sub[prefix].status
        subscriptionInactive == subscriptionStatus # "active" /\ subscriptionStatus # "trialing"
    IN _throwPaymentErrors(subscriptionPlanNotSet, subscriptionNotFound,
                           subscribedToIncorrectPlan, subscriptionInactive)

\* a route that gates its action on validatePayment for the user, app and admin
\* that authenticateUser handed over
validatePaymentCall(key) ==
  LET user == users[key]
      app == getAppByAppId(key[1])
      admin == findAdminByAdminId(app.adminId)
  IN
  /\ user.exists /\ app.exists /\ admin.exists
  /\ resp' = [op |-> "validatePayment", key |-> key, error |-> validatePayment(user, app, admin)]
  /\ Forget
  /\ UNCHANGED <<clock, users, sessions, apps, admins, nextUserId, nextToken, pending,
                 procs, nextTemp>>

(* ---------------------------- initial states -------------------------- *)
PaidAdmin ==
  [NoAdmin EXCEPT !.exists = TRUE, !.stripeAccountId = "acct1", !.saasStatus = "active"]

PlainApp(adminId) == [NoApp EXCEPT !.exists = TRUE, !.adminId = adminId]

InitStore ==
  /\ clock = 0
  /\ users = [k \in UserKeys |-> NoUser]
  /\ sessions = [t \in Tokens |-> NoSession]
  /\ nextUserId = 1
  /\ nextToken = 1
  /\ nextTemp = 1
  /\ pending = EmptyBag
  /\ procs = [p \in Procs |-> NoProc]
  /\ resp = [op |-> "none"]
  /\ hist = [fresh |-> NoFresh, wrongInRow |-> [k \in UserKeys |-> 0],
             proofs |-> [u \in UserIds |-> [made |-> 0, ok |-> 0]]]

\* one live app of one paying admin
InitPassword ==
  /\ InitStore
  /\ apps = [a \in AppIds |-> IF a = "app1" THEN PlainApp("adm1") ELSE NoApp]
  /\ admins = [a \in AdminIds |-> IF a = "adm1" THEN PaidAdmin ELSE NoAdmin]

AllIdle == \A p \in Procs : procs[p].pc = "idle"

Quiet == AllIdle /\ pending = EmptyBag

TempPasswordTokens == {_generateTempPasswordToken(n) : n \in 1..MaxTempPasswords}

\* one user of one app; a request starts when the one before it has ended and its
\* updates have landed; the updates of a request land in any order, as time passes
NextPassword ==
  \/ /\ ~users[<<"app1", "alice">>].exists
     /\ signUp("app1", "alice", "pw1", "pk1", "a@x")
  \/ \E pw \in PasswordTokens \cup TempPasswordTokens :
        Quiet /\ signIn("app1", "Alice", pw)
  \/ \E pw \in PasswordTokens \cup TempPasswordTokens :
        Quiet /\ updateUserRead(1, 1, NoStr, pw, "pw1")
  \/ updateUserWrite(1)
  \/ Quiet /\ generateForgotPasswordToken(1, "app1", "alice", "m1")
  \/ forgotPassword(1, base64("m1"))
  \/ \E w \in BagToSet(pending) : ApplyBookkeeping(w)
  \/ Tick

SpecPassword == InitPassword /\ [][NextPassword]_vars

(* ------------- sign-up, sign-in and proof of key possession ----------- *)
SessionIds == {t \in Tokens : t % 2 = 1}

\* the session ids a client can present: those issued so far, and one that is
\* never issued (ids are random, so no client holds an id before it is issued)
UnissuedSessionId == 2 * MaxSessions + 1

PresentableSessionIds == {t \in SessionIds : t < nextToken} \cup {UnissuedSessionId}

\* one username in two spellings; sign-ins are explored up to the first counted
\* wrong attempt, the lockout being the subject of SpecPassword
NextSignUp ==
  \/ \E username \in {"alice", "Alice"}, pw \in PasswordTokens :
       pending = EmptyBag /\ signUp("app1", username, pw, "pk1", "a@x")
  \/ \E username \in {"alice", "Alice"}, pw \in PasswordTokens :
       /\ pending = EmptyBag
       /\ users[<<"app1", "alice">>].attempts <= 0
       /\ signIn("app1", username, pw)
  \/ \E p \in Procs, sessionId \in PresentableSessionIds :
       authenticateUser(p, sessionId, "app1")
  \/ \E p \in Procs, m \in Messages : validateKey(p, "m1", base64(m))
  \/ \E w \in BagToSet(pending) : ApplyBookkeeping(w)

SpecSignUp == InitPassword /\ [][NextSignUp]_vars

(* ------------------------------ sessions ------------------------------ *)
\* one session, and the requests of two connections on it
NextSession ==
  \/ /\ ~users[<<"app1", "alice">>].exists
     /\ signUp("app1", "alice", "pw1", "pk1", "a@x")
  \/ \E p \in Procs, sessionId \in PresentableSessionIds :
       authenticateUser(p, sessionId, "app1")
  \/ \E sessionId \in PresentableSessionIds : signOut(sessionId)
  \/ \E p \in Procs : extendSession(p)
  \/ Tick

SpecSession == InitPassword /\ [][NextSession]_vars

\* one request at a time, with users, apps and admins deleted between requests
NextAuthenticate ==
  \/ AllIdle /\ signUp("app1", "alice", "pw1", "pk1", "a@x")
  \/ \E sessionId \in PresentableSessionIds, appId \in AppIds :
       authenticateUser(1, sessionId, appId)
  \/ extendSession(1)
  \/ \E userId \in UserIds : AllIdle /\ deleteUserController(userId)
  \/ AllIdle /\ deleteApp("app1")
  \/ AllIdle /\ deleteAdmin("adm1")
  \/ AllIdle /\ Tick

SpecAuthenticate == InitPassword /\ [][NextAuthenticate]_vars

\* the items the sessions table can hold under one id at time now: none, a user's
\* session, a session without user-id (an admin's), and the items the unconditioned
\* updates of signOut and extendSession create
SessionRecords(now) ==
  {NoSession} \cup
  {[exists |-> TRUE, authToken |-> IF c = NoTime THEN NoId ELSE 2, userId |-> u,
    appId |-> IF c = NoTime THEN NoStr ELSE "app1",
    creationDate |-> c, extendedDate |-> e, invalidated |-> i,
    ttl |-> IF e # NoTime THEN e + SECONDS_IN_A_DAY
            ELSE IF c # NoTime THEN c + SECONDS_IN_A_DAY ELSE NoTime] :
     <<u, c, e, i>> \in
       {x \in {NoId, 1} \X ({NoTime} \cup 0..now) \X ({NoTime} \cup 0..now) \X BOOLEAN :
          /\ x[1] # NoId => x[2] # NoTime
          /\ x[2] # NoTime /\ x[3] # NoTime => x[3] >= x[2]
          /\ x[2] = NoTime /\ x[3] = NoTime => x[4]}}

SignedUp(userId, passwordToken, publicKey) ==
  [NoUser EXCEPT !.exists = TRUE, !.userId = userId, !.passwordToken = sha256(passwordToken),
                 !.publicKey = publicKey, !.seedNotSavedYet = TRUE, !.email = "a@x"]

\* one user of a live app, and any item under session id 1
InitValidateSession ==
  /\ clock \in 0..MaxClock
  /\ users = [k \in UserKeys |->
                IF k = <<"app1", "alice">> THEN SignedUp(1, "pw1", "pk1") ELSE NoUser]
  /\ \E session \in SessionRecords(clock) :
       sessions = [t \in Tokens |-> IF t = 1 THEN session ELSE NoSession]
  /\ apps = [a \in AppIds |-> IF a = "app1" THEN PlainApp("adm1") ELSE NoApp]
  /\ admins = [a \in AdminIds |-> IF a = "adm1" THEN PaidAdmin ELSE NoAdmin]
  /\ nextUserId = 2
  /\ nextToken = 3
  /\ nextTemp = 1
  /\ pending = EmptyBag
  /\ procs = [p \in Procs |-> NoProc]
  /\ resp = [op |-> "none"]
  /\ hist = [fresh |-> NoFresh, wrongInRow |-> [k \in UserKeys |-> 0],
             proofs |-> [u \in UserIds |-> [made |-> 0, ok |-> 0]]]

NextValidateSession ==
  \/ \E p \in Procs : authenticateUser(p, 1, "app1")
  \/ \E p \in Procs : extendSession(p)
  \/ signOut(1)
  \/ Tick

SpecValidateSession == InitValidateSession /\ [][NextValidateSession]_vars

(* ------------------------------- billing ------------------------------ *)
\* an app with a plan in each environment
InitBilling ==
  /\ InitStore
  /\ apps = [a \in AppIds |->
               IF a = "app1"
               THEN [PlainApp("adm1") EXCEPT !.testPlanId = "plan1", !.prodPlanId = "plan2"]
               ELSE NoApp]
  /\ admins = [a \in AdminIds |-> IF a = "adm1" THEN PaidAdmin ELSE NoAdmin]

\* the events of the subscriptions of app1's users, in both environments: active,
\* or past due and to be cancelled
BillingEvents ==
  {e \in Events : /\ e.adminId = "adm1" /\ e.appId = "app1" /\ e.stripeAccountId = "acct1"
                  /\ e.subscriptionId = "sub1"
                  /\ e.cancelAt = IF e.status = "active" THEN NoTime ELSE 1
                  /\ e.planId = IF e.isProduction THEN "plan2" ELSE "plan1"}

\* webhooks of two events at a time, the second handler taken while the first is busy
NextBilling ==
  \/ /\ ~users[<<"app1", "alice">>].exists
     /\ signUp("app1", "alice", "pw1", "pk1", "a@x")
  \/ \E p \in Procs, e \in BillingEvents :
       /\ p = 2 => procs[1].pc # "idle"
       \* the users signed up so far, and one that is not
       /\ e.userId <= nextUserId
       /\ updateSubscriptionRead(p, e)
  \/ \E p \in Procs : updateSubscriptionWrite(p)

SpecBilling == InitBilling /\ [][NextBilling]_vars

(* ======================= claims: password lockout ===================== *)
\* the latest step ran _validatePassword (in signIn or in updateUser)
IsPasswordCheck ==
  resp.op \in {"signIn", "updateUser"} /\ resp.check # "skipped" /\ resp.key \in UserKeys

\* the record the latest password check read: the check itself changes no user
CheckedUser == users[resp.key]

TokenIsPassword == sha256(resp.passwordToken) = CheckedUser.passwordToken

TokenIsTempPassword ==
  /\ CheckedUser.tempPasswordToken # NoHash
  /\ sha256(resp.passwordToken) = CheckedUser.tempPasswordToken

\* the counter is at the limit and no suspension a day old is stored
LockedOut ==
  /\ CheckedUser.attempts >= MAX_INCORRECT_PASSWORD_GUESSES
  /\ CheckedUser.suspendedAt = NoTime \/ clock - CheckedUser.suspendedAt < MS_IN_A_DAY

\* the counter is at the limit and the stored suspension is a day old or older
LockoutExpired ==
  /\ CheckedUser.attempts >= MAX_INCORRECT_PASSWORD_GUESSES
  /\ CheckedUser.suspendedAt # NoTime
  /\ clock - CheckedUser.suspendedAt >= MS_IN_A_DAY

\* every check made while the counter is at the limit and the lockout is in
\* force fails with PasswordAttemptLimitExceeded, whatever token is presented
LockedOutChecksFail ==
  IsPasswordCheck /\ LockedOut => resp.check = "PasswordAttemptLimitExceeded"

\* the check that follows 25 incorrect attempts in a row fails with
\* PasswordAttemptLimitExceeded, whatever token is presented
TwentySixthAttemptFails ==
  IsPasswordCheck /\ resp.wrongBefore = MAX_INCORRECT_PASSWORD_GUESSES
    => resp.check = "PasswordAttemptLimitExceeded"

\* C1: once the counter is >= 25, every password check made while suspendedAt
\* is absent or less than 24 hours old fails with PasswordAttemptLimitExceeded,
\* even with the correct password or a matching temp password; in particular
\* the attempt that follows 25 consecutive incorrect attempts fails even with
\* the correct password.
C1_LockoutAfter25 == LockedOutChecksFail /\ TwentySixthAttemptFails

\* C2: when the counter is >= 25 and suspendedAt is 24 hours old or older, the
\* next password check issues the write that clears the lockout and evaluates
\* the attempt normally: the correct password passes, a token matching neither
\* hash gets the incorrect-password error and not the limit error; the write,
\* once applied, leaves suspendedAt removed and the counter at 0.
C2_RetryAfterADay ==
  /\ IsPasswordCheck /\ LockoutExpired =>
       /\ BagIn(Write("_allowUserToRetryPassword", resp.key), pending)
       /\ resp.check # "PasswordAttemptLimitExceeded"
       /\ TokenIsPassword => resp.check = "none"
       /\ ~TokenIsPassword /\ ~TokenIsTempPassword
            => resp.check = "Incorrect password or temp password"
  /\ resp.op = "bookkeeping" /\ resp.kind = "_allowUserToRetryPassword" =>
       /\ users[resp.key].attempts = 0
       /\ users[resp.key].suspendedAt = NoTime

\* a sign-in with the correct password passes the check a day after suspension
C2_Witness ==
  /\ resp.op = "signIn" /\ IsPasswordCheck /\ LockoutExpired
  /\ TokenIsPassword
  /\ resp.status = "Success"

(* ================= claims: sign-up, sign-in, key possession =========== *)
\* the step is a signUp that reached its conditional put
SignUpPut == resp'.op = "signUp" /\ resp'.status \notin {"Unauthorized", "Payment Required"}

\* C3: a signUp on a key holding a record whose seedNotSavedYet is unset fails
\* with Conflict 'UsernameAlreadyExists', leaves the record unchanged and
\* creates no session; a signUp on a key with no record, or with a record whose
\* seedNotSavedYet is set, succeeds and replaces the record with one carrying a
\* fresh userId and seedNotSavedYet set.
C3_SignUpConflict ==
  [][SignUpPut =>
       LET key == resp'.key
           old == users[key]
       IN
       IF old.exists /\ ~old.seedNotSavedYet
       THEN /\ resp'.status = "Conflict"
            /\ resp'.message = "UsernameAlreadyExists"
            /\ users' = users
            /\ sessions' = sessions
            /\ resp'.sessionId = NoId
       ELSE /\ resp'.status = "Success"
            /\ UsersWithUserId(resp'.userId) = {}
            /\ users' = [users EXCEPT ![key] =
                           [NoUser EXCEPT !.exists = TRUE, !.userId = resp'.userId,
                                          !.passwordToken = users'[key].passwordToken,
                                          !.publicKey = users'[key].publicKey,
                                          !.email = users'[key].email,
                                          !.seedNotSavedYet = TRUE]]]_vars

\* a signUp refused with Conflict on a record that has proved its key
C3_Witness ==
  /\ resp.op = "signUp"
  /\ resp.status = "Conflict"
  /\ users[resp.key].exists /\ ~users[resp.key].seedNotSavedYet

\* C4: right after a successful signUp, with no other operation in between, a
\* signIn with the same appId, username and passwordToken succeeds, creates a
\* session that passes _validateSession and returns the userId signUp returned.
C4_SignInAfterSignUp ==
  [][/\ resp'.op = "signIn"
     /\ hist.fresh # NoFresh
     /\ resp'.key = hist.fresh.key
     /\ resp'.passwordToken = hist.fresh.passwordToken
     => /\ resp'.status = "Success"
        /\ resp'.userId = hist.fresh.userId
        /\ ~sessions[resp'.sessionId].exists
        /\ sessions'[resp'.sessionId].userId = hist.fresh.userId
        /\ sessions'[resp'.sessionId].appId = resp'.appId
        /\ _validateSession(sessions'[resp'.sessionId], clock') = "ok"]_vars

\* a sign-in that follows the sign-up of the same user with the same token
C4_Witness ==
  /\ resp.op = "signIn"
  /\ resp.fresh # NoFresh
  /\ resp.key = resp.fresh.key
  /\ resp.passwordToken = resp.fresh.passwordToken
  /\ resp.status = "Success"

\* the step is a validateKey whose message matched, for a user read with the flag set
FirstProof == resp'.op = "validateKey" /\ resp'.matched /\ resp'.firstProof

\* C10: a matching validateKey for a user read with seedNotSavedYet set clears
\* the flag by one write conditioned on the flag being still set and on the
\* stored userId and publicKey being those of the authenticated user; when the
\* condition fails the call returns Unauthorized 'Invalid seed', the connection
\* is not key-validated and the record is unchanged; of the first proofs made
\* for one user, concurrent ones included, exactly one succeeds.
C10_FirstProofOnce ==
  [][/\ FirstProof =>
          LET key == resp'.key
              stored == users[key]
          IN
          IF /\ stored.exists /\ stored.seedNotSavedYet
             /\ stored.userId = resp'.userId /\ stored.publicKey = resp'.publicKey
          THEN /\ resp'.status = "Success"
               /\ resp'.keyValidated
               /\ users' = [users EXCEPT ![key].seedNotSavedYet = FALSE]
          ELSE /\ resp'.status = "Unauthorized"
               /\ resp'.message = "Invalid seed"
               /\ ~resp'.keyValidated
               /\ users' = users
     /\ \A u \in UserIds :
          /\ hist'.proofs[u].ok <= 1
          /\ hist'.proofs[u].made >= 1 /\ (\E k \in UserKeys : users'[k].userId = u)
               => hist'.proofs[u].ok = 1]_vars

\* two first proofs were made for one user from two connections, and the
\* second was refused
C10_Witness ==
  /\ resp.op = "validateKey"
  /\ resp.message = "Invalid seed"
  /\ hist.proofs[resp.userId].made = 2
  /\ hist.proofs[resp.userId].ok = 1
  /\ users[resp.key].userId = resp.userId

(* ============================ claims: sessions ======================== *)
\* the start of a session as the claim words it: extendedTime if present, else
\* creationTime
StartOf(session) ==
  IF session.extendedDate # NoTime THEN session.extendedDate ELSE session.creationDate

Accepted(session) ==
  /\ session.exists
  /\ ~session.invalidated
  /\ StartOf(session) # NoTime /\ clock - StartOf(session) <= SESSION_LENGTH
  /\ session.userId # NoId

\* C5: _validateSession accepts a session if and only if the record exists, is
\* not invalidated, now - (extendedTime if present, else creationTime) <= 24
\* hours, and it has a userId; every other session is answered Unauthorized
\* 'Session invalid'.
C5_ValidateSession ==
  /\ \A t \in Tokens : (_validateSession(sessions[t], clock) = "ok") <=> Accepted(sessions[t])
  /\ resp.op = "authenticateUser" /\ ~Accepted(sessions[resp.sessionId])
       => /\ resp.status = "Unauthorized"
          /\ resp.message = "Session invalid"
          /\ ~resp.next

\* a session a day old by its creation and fresh by its extension is accepted
C5_Witness ==
  /\ resp.op = "authenticateUser"
  /\ resp.next
  /\ sessions[resp.sessionId].extendedDate # NoTime
  /\ clock - sessions[resp.sessionId].creationDate > SESSION_LENGTH

\* what the claim requires of the stores for next() to be called
MayProceed(sessionId, appId) ==
  LET session == sessions[sessionId]
  IN
  /\ Accepted(session)
  /\ session.appId = appId
  /\ \E k \in UserKeys : users[k].exists /\ users[k].userId = session.userId /\ ~users[k].deleted
  /\ session.appId \in AppIds
  /\ apps[session.appId].exists /\ ~apps[session.appId].deleted
  /\ apps[session.appId].adminId \in AdminIds
  /\ admins[apps[session.appId].adminId].exists
  /\ ~admins[apps[session.appId].adminId].deleted

\* C6: authenticateUser calls next() only if the session passes
\* _validateSession, the session's appId equals the request's appId, the user
\* exists and is not soft-deleted, the app exists and is not deleted, and the
\* admin exists and is not deleted; otherwise it responds Unauthorized and does
\* not call next().
C6_AuthenticateUser ==
  resp.op = "authenticateUser" =>
    /\ resp.next <=> MayProceed(resp.sessionId, resp.appId)
    /\ ~resp.next => resp.status = "Unauthorized"

\* a request refused for the soft-deleted owner of a session that is itself valid
C6_Witness ==
  /\ resp.op = "authenticateUser"
  /\ ~resp.next
  /\ Accepted(sessions[resp.sessionId])
  /\ sessions[resp.sessionId].appId = resp.appId
  /\ \E k \in UserKeys : users[k].userId = sessions[resp.sessionId].userId /\ users[k].deleted

\* C7: once signOut has set invalidated on a session, the session never passes
\* _validateSession again, whatever extendSession, signOut and authenticateUser
\* calls follow in whatever order, and no authenticateUser proceeds on it.
C7_SignOutIsFinal ==
  [][\A t \in Tokens : sessions[t].invalidated =>
       /\ sessions'[t].invalidated
       /\ _validateSession(sessions'[t], clock') # "ok"
       /\ resp'.op = "authenticateUser" /\ resp'.sessionId = t => ~resp'.next]_vars

\* a request authenticated before the sign-out extends the session after it
C7_Witness ==
  /\ resp.op = "extendSession"
  /\ sessions[resp.sessionId].invalidated
  /\ sessions[resp.sessionId].extendedDate = clock
  /\ sessions[resp.sessionId].userId # NoId

(* ============================ claims: billing ========================= *)
\* the step is the conditional update of updateSubscriptionInDdb
SubscriptionWrite ==
  /\ resp'.op = "updateSubscriptionInDdb"
  /\ resp'.outcome \in {"applied", "raised"}
  /\ resp'.key \in UserKeys

\* the subscription fields stored, before the step, for the event's environment
StoredSub == users[resp'.key].sub[Env(resp'.event.isProduction)]

EventSub ==
  [customerId |-> resp'.event.customerId, subscriptionId |-> resp'.event.subscriptionId,
   planId |-> resp'.event.planId, status |-> resp'.event.status,
   cancelAt |-> resp'.event.cancelAt, eventTimestamp |-> resp'.event.eventTimestamp]

StillTheUser ==
  users[resp'.key].exists /\ users[resp'.key].userId = resp'.event.userId

\* C8: updateSubscriptionInDdb changes the stored subscription fields only
\* when the event's timestamp is strictly greater than the stored one, or none
\* is stored; an event with the same or an older timestamp leaves every field
\* of the record unchanged.
C8_NewerEventsOnly ==
  [][resp'.op = "updateSubscriptionInDdb" =>
       IF /\ SubscriptionWrite /\ StillTheUser
          /\ StoredSub.eventTimestamp = NoTime
             \/ StoredSub.eventTimestamp < resp'.event.eventTimestamp
       THEN users' = [users EXCEPT ![resp'.key].sub[Env(resp'.event.isProduction)] = EventSub]
       ELSE users' = users]_vars

\* an event of the stored timestamp, carrying other fields, left the record as it was
C8_Witness ==
  /\ resp.op = "updateSubscriptionInDdb"
  /\ resp.outcome = "raised"
  /\ resp.key \in UserKeys
  /\ users[resp.key].userId = resp.event.userId
  /\ users[resp.key].sub[Env(resp.event.isProduction)].eventTimestamp
       = resp.event.eventTimestamp
  /\ users[resp.key].sub[Env(resp.event.isProduction)].status # resp.event.status

\* C9: an event whose timestamp is not newer than the stored one is skipped in
\* silence: updateSubscriptionInDdb leaves the record alone and returns
\* normally, raising nothing.
C9_StaleEventSkipped ==
  [][/\ SubscriptionWrite /\ StillTheUser
     /\ StoredSub.eventTimestamp # NoTime
     /\ StoredSub.eventTimestamp >= resp'.event.eventTimestamp
     => users' = users /\ resp'.outcome # "raised"]_vars

(* ===================== claims: uniform failure of validateKey ========= *)
\* C11: validateKey fails uniformly: the response to a message that does not
\* match the challenge and the response to a matching message whose seed-commit
\* write is rejected carry the same status and the same message.
C11_ValidateKeyFailsUniformly ==
  [][/\ resp.op = "validateKey" /\ resp.status # "Success" /\ ~resp.matched
     /\ resp'.op = "validateKey" /\ resp'.status # "Success" /\ resp'.matched
     => resp'.status = resp.status /\ resp'.message = resp.message]_vars

(* ===================== claims: renaming onto a taken username ========= *)
\* two users of one app who sign up, enrol their keys on one connection, each
\* proving its key once, and are renamed by a second request, whose read and
\* write other requests come between
NextRename ==
  \/ \E username \in {"alice", "bob"} :
       /\ procs[1].pc = "idle"
       /\ signUp("app1", username, "pw1", "pk1", "a@x")
  \/ \E sessionId \in PresentableSessionIds : authenticateUser(1, sessionId, "app1")
  \/ /\ procs[1].pc = "authenticated"
     /\ hist.proofs[procs[1].user.userId].made = 0
     /\ validateKey(1, "m1", base64("m1"))
  \/ \E userId \in UserIds, username \in {"alice", "Alice", "bob"} :
       /\ userId < nextUserId
       /\ updateUserRead(2, userId, username, NoStr, NoStr)
  \/ updateUserWrite(2)

SpecRename == InitPassword /\ [][NextRename]_vars

\* request p ends in this step with the write of a rename
RenameWrite(p) ==
  /\ procs[p].pc = "updateUser"
  /\ procs'[p].pc = "idle"
  /\ procs[p].username # NoStr
  /\ toLowerCase(procs[p].username) # procs[p].key[2]

RenameTarget(p) == <<procs[p].key[1], toLowerCase(procs[p].username)>>

Enrolled(key) == users[key].exists /\ ~users[key].seedNotSavedYet

\* C12: a rename onto a username that an enrolled user of the same app holds
\* changes no user record, so both records stay as they were, and, the renamed
\* user's record being still in place, is answered Conflict UsernameAlreadyExists.
C12_RenameOntoEnrolledUser ==
  [][\A p \in Procs :
       RenameWrite(p) /\ Enrolled(RenameTarget(p))
       => /\ users' = users
          /\ resp'.status # "Success"
          /\ conditionCheckUserExists(procs[p].key, procs[p].userId)
             => /\ resp'.status = "Conflict"
                /\ resp'.message = "UsernameAlreadyExists"
                /\ users'[procs[p].key].exists
                /\ users'[procs[p].key].userId = procs[p].userId]_vars

C12_Witness ==
  /\ resp.op = "updateUser"
  /\ resp.status = "Conflict"
  /\ resp.message = "UsernameAlreadyExists"
  /\ users[resp.key].exists
  /\ users[resp.key].userId = resp.userId
  /\ \E k \in UserKeys : k # resp.key /\ Enrolled(k)

(* ===================== claims: the temporary password ================= *)
\* one user who forgets the password: checks with the password, a wrong token and
\* the temp passwords issued, one request at a time, while the counter of
\* incorrect attempts is far from the limit
NextTempPassword ==
  \/ /\ ~users[<<"app1", "alice">>].exists
     /\ signUp("app1", "alice", "pw1", "pk1", "a@x")
  \/ \E pw \in PasswordTokens \cup TempPasswordTokens :
        /\ Quiet
        /\ users[<<"app1", "alice">>].attempts <= 1
        /\ signIn("app1", "Alice", pw)
  \/ \E pw \in PasswordTokens \cup TempPasswordTokens :
        /\ Quiet
        /\ users[<<"app1", "alice">>].attempts <= 1
        /\ updateUserRead(1, 1, NoStr, pw, "pw1")
  \/ updateUserWrite(1)
  \/ Quiet /\ generateForgotPasswordToken(1, "app1", "alice", "m1")
  \/ forgotPassword(1, base64("m1"))
  \/ \E w \in BagToSet(pending) : ApplyBookkeeping(w)
  \/ Tick

SpecTempPassword == InitPassword /\ [][NextTempPassword]_vars

\* the age of the checked user's temp password, in days
TempPasswordAge == clock - CheckedUser.tempPasswordCreationDate

\* the latest check was given a token that matches the stored temp password hash
\* and not the password hash
TempPasswordCheck == IsPasswordCheck /\ TokenIsTempPassword /\ ~TokenIsPassword

\* C13: a check whose token matches the temp password hash and not the password
\* succeeds only while the temp password is at most 24 hours old, and outside a
\* lockout does succeed then; older than that it is rejected with 'Temp password
\* expired', which is not the error of a token that matches neither hash.
C13_TempPasswordExpiry ==
  /\ TempPasswordCheck /\ resp.check = "none" => TempPasswordAge <= MS_IN_A_DAY
  /\ TempPasswordCheck /\ ~LockedOut /\ TempPasswordAge <= MS_IN_A_DAY => resp.check = "none"
  /\ TempPasswordCheck /\ ~LockedOut /\ TempPasswordAge > MS_IN_A_DAY
       => resp.check = "Temp password expired"
  /\ IsPasswordCheck /\ ~TokenIsPassword /\ ~TokenIsTempPassword
       => resp.check # "Temp password expired"

\* a sign-in with the temp password at the end of its 24 hours
C13_Witness ==
  /\ resp.op = "signIn" /\ TempPasswordCheck /\ ~LockedOut
  /\ TempPasswordAge = MS_IN_A_DAY /\ resp.status = "Success" /\ resp.usedTempPassword

\* a sign-in with the temp password after its 24 hours
C13_WitnessExpired ==
  /\ resp.op = "signIn" /\ TempPasswordCheck /\ ~LockedOut
  /\ TempPasswordAge > MS_IN_A_DAY /\ resp.check = "Temp password expired"

\* the step is a password check that directly follows a sign-in which the same
\* token passed as the temp password of the same user
TempPasswordUsedAgain ==
  /\ resp.op = "signIn" /\ resp.check = "none" /\ resp.usedTempPassword
  /\ resp'.op \in {"signIn", "updateUser"} /\ resp'.check # "skipped"
  /\ resp'.key = resp.key
  /\ resp'.passwordToken = resp.passwordToken

InitVerify ==
  /\ InitStore
  /\ apps = [a \in AppIds |-> PlainApp(IF a = "app1" THEN "adm1" ELSE "adm2")]
  /\ admins = [a \in AdminIds |-> PaidAdmin]

\* what a caller can present as a token: nothing of the right form, any value
\* issued so far as session id or auth token, and one value never issued
PresentableTokens == {NoId} \cup {t \in Tokens : t < nextToken} \cup {UnissuedSessionId}

\* one user of app1; either admin verifies tokens while sessions end or expire
\* and the user and the app are deleted
NextVerify ==
  \/ /\ ~users[<<"app1", "alice">>].exists
     /\ signUp("app1", "alice", "pw1", "pk1", "a@x")
  \/ \E adminId \in AdminIds, authToken \in PresentableTokens : verifyAuthToken(adminId, authToken)
  \/ \E sessionId \in PresentableSessionIds : signOut(sessionId)
  \/ \E userId \in UserIds : deleteUserController(userId)
  \/ deleteApp("app1")
  \/ Tick

SpecVerify == InitVerify /\ [][NextVerify]_vars

\* the session, app and user that the latest verifyAuthToken looked at
VerifiedSession == _getSessionByAuthToken(resp.authToken)

VerifiedApp == getAppByAppId(VerifiedSession.appId)

VerifiedUser == getUserByUserId(VerifiedSession.userId)

\* C15: verifyAuthToken answers 'Auth token verified!' only if exactly one
\* session carries the token, the session passes _validateSession, its app
\* exists, is not soft-deleted and belongs to the calling admin, and its user
\* exists and is not soft-deleted; a token of a valid session whose app is owned
\* by another admin is rejected with Unauthorized.
C15_VerifyAuthToken ==
  resp.op = "verifyAuthToken" =>
    /\ resp.message = "Auth token verified!" =>
         /\ resp.status = "Success"
         /\ Cardinality(SessionsWithAuthToken(resp.authToken)) = 1
         /\ _validateSession(VerifiedSession, clock) = "ok"
         /\ VerifiedApp.exists /\ ~VerifiedApp.deleted
         /\ VerifiedApp.adminId = resp.adminId
         /\ getUserByUserIdCount(VerifiedSession.userId) = "one"
         /\ ~VerifiedUser.deleted
    /\ resp.status = "Success" => resp.message = "Auth token verified!"
    /\ ( /\ Cardinality(SessionsWithAuthToken(resp.authToken)) = 1
         /\ _validateSession(VerifiedSession, clock) = "ok"
         /\ getUserByUserIdCount(VerifiedSession.userId) # "many"
         /\ VerifiedApp.exists
         /\ VerifiedApp.adminId # resp.adminId )
       => resp.status = "Unauthorized"

\* the owner of the app verifies the token of a live session
C15_Witness ==
  /\ resp.op = "verifyAuthToken"
  /\ resp.message = "Auth token verified!"
  /\ VerifiedApp.adminId = resp.adminId

\* the other admin presents the same kind of token
C15_WitnessOtherAdmin ==
  /\ resp.op = "verifyAuthToken"
  /\ resp.status = "Unauthorized"
  /\ _validateSession(VerifiedSession, clock) = "ok"
  /\ VerifiedApp.exists /\ ~VerifiedApp.deleted
  /\ VerifiedUser.exists /\ ~VerifiedUser.deleted
  /\ VerifiedApp.adminId # resp.adminId

(* ============ claims: the auth token is no session capability ========= *)
\* what a client can present as a session id: any value issued so far, as
\* session id or as auth token, and one value never issued
PresentedIds == {t \in Tokens : t < nextToken} \cup {UnissuedSessionId}

\* one user whose session ids and auth tokens are presented as session ids
NextCapability ==
  \/ /\ ~users[<<"app1", "alice">>].exists
     /\ signUp("app1", "alice", "pw1", "pk1", "a@x")
  \/ \E p \in Procs, sessionId \in PresentedIds :
       /\ p = 2 => procs[1].pc # "idle"
       /\ authenticateUser(p, sessionId, "app1")
  \/ \E sessionId \in PresentedIds : signOut(sessionId)
  \/ \E p \in Procs : extendSession(p)
  \/ Tick

SpecCapability == InitPassword /\ [][NextCapability]_vars

\* the sessions, stored under another id, whose auth token is this value
OwnersOfAuthToken(value) ==
  {t \in Tokens : t # value /\ sessions[t].exists /\ sessions[t].authToken = value}

\* the value is the auth token of a live session and the session id of none
AuthTokenOnly(value) ==
  /\ value \in Tokens
  /\ ~sessions[value].exists
  /\ \E t \in OwnersOfAuthToken(value) : _validateSession(sessions[t], clock) = "ok"

\* C16: authenticateUser given, as session id, a value that is the auth token of
\* a live session and the session id of none answers Unauthorized and does not
\* proceed; a signOut or extendSession keyed by the auth token of a session
\* leaves that session's item as it was.
C16_AuthTokenIsNoCapability ==
  [][/\ resp'.op = "authenticateUser" /\ AuthTokenOnly(resp'.sessionId)
          => resp'.status = "Unauthorized" /\ ~resp'.next
     /\ resp'.op \in {"signOut", "extendSession"}
          => \A t \in OwnersOfAuthToken(resp'.sessionId) : sessions'[t] = sessions[t]]_vars

\* the auth token of a live session has been refused as a session id
C16_Witness ==
  /\ resp.op = "authenticateUser"
  /\ AuthTokenOnly(resp.sessionId)
  /\ resp.status = "Unauthorized"

\* a signOut keyed by the auth token of a live session has left it live
C16_WitnessSignOut ==
  /\ resp.op = "signOut"
  /\ \E t \in OwnersOfAuthToken(resp.sessionId) :
       /\ _validateSession(sessions[t], clock) = "ok"
       /\ ~sessions[t].invalidated

(* ===================== claims: validatePayment ======================== *)
PlanIds == {"plan1", "plan2"}

\* what the billing events can have left for one environment on a user
StoredSubs ==
  {NoSub} \cup
  {[NoSub EXCEPT !.customerId = "cus1", !.subscriptionId = "sub1", !.planId = planId,
                 !.status = status, !.eventTimestamp = 1] :
     planId \in PlanIds, status \in {"active", "trialing", "past_due"}}

\* one signed-up user with any stored subscriptions, an app in any payments mode
\* with any configured plans, the admin's prod payments on or off
InitPayment ==
  /\ clock = 0
  /\ sessions = [t \in Tokens |-> NoSession]
  /\ nextUserId = 2
  /\ nextToken = 1
  /\ nextTemp = 1
  /\ pending = EmptyBag
  /\ procs = [p \in Procs |-> NoProc]
  /\ resp = [op |-> "none"]
  /\ hist = [fresh |-> NoFresh, wrongInRow |-> [k \in UserKeys |-> 0],
             proofs |-> [u \in UserIds |-> [made |-> 0, ok |-> 0]]]
  /\ \E sub \in [Envs -> StoredSubs] :
       users = [k \in UserKeys |->
                  IF k = <<"app1", "alice">>
                  THEN [SignedUp(1, "pw1", "pk1") EXCEPT !.sub = sub] ELSE NoUser]
  /\ \E mode \in {NoStr, "test", "prod"}, testPlanId \in PlanIds \cup {NoStr},
        prodPlanId \in PlanIds \cup {NoStr} :
       apps = [a \in AppIds |->
                 IF a = "app1"
                 THEN [PlainApp("adm1") EXCEPT !.paymentsMode = mode,
                                               !.testPlanId = testPlanId,
                                               !.prodPlanId = prodPlanId]
                 ELSE NoApp]
  /\ \E enabled \in BOOLEAN :
       admins = [a \in AdminIds |->
                   IF a = "adm1" THEN [PaidAdmin EXCEPT !.prodPaymentsEnabled = enabled]
                   ELSE NoAdmin]

NextPayment == \E key \in UserKeys : validatePaymentCall(key)

SpecPayment == InitPayment /\ [][NextPayment]_vars

\* the app, the admin and the active environment of the latest validatePayment
PaymentApp == getAppByAppId(resp.key[1])

PaymentAdmin == findAdminByAdminId(PaymentApp.adminId)

PaymentEnv == IF PaymentApp.paymentsMode = "prod" THEN "prod" ELSE "test"

PaymentAppPlan == appPlanId(PaymentApp, PaymentEnv = "prod")

PaymentUserSub == users[resp.key].sub[PaymentEnv]

PaymentPermitted ==
  \/ PaymentApp.paymentsMode \notin {"test", "prod"}
  \/ PaymentApp.paymentsMode = "prod" /\ ~PaymentAdmin.prodPaymentsEnabled
  \/ /\ PaymentUserSub.planId # NoStr
     /\ PaymentUserSub.planId = PaymentAppPlan
     /\ PaymentUserSub.status \in {"active", "trialing"}

\* C17: validatePayment returns without throwing exactly when the payments mode
\* is neither test nor prod, or it is prod and the admin's prod payments are
\* off, or the user's plan for the active environment is set, equals the app's
\* plan and has status active or trialing; otherwise it throws the first that
\* applies of SubscriptionPlanNotSet, SubscriptionNotFound,
\* SubscribedToIncorrectPlan, SubscriptionInactive.
C17_ValidatePayment ==
  resp.op = "validatePayment" =>
    /\ resp.error = NoPaymentError <=> PaymentPermitted
    /\ ~PaymentPermitted =>
         resp.error.name =
           IF PaymentAppPlan = NoStr THEN "SubscriptionPlanNotSet"
           ELSE IF PaymentUserSub.planId = NoStr THEN "SubscriptionNotFound"
           ELSE IF PaymentUserSub.planId # PaymentAppPlan THEN "SubscribedToIncorrectPlan"
           ELSE "SubscriptionInactive"

\* a user on another plan than the app's, with a status that is not active
C17_Witness ==
  /\ resp.op = "validatePayment"
  /\ PaymentApp.paymentsMode = "prod" /\ PaymentAdmin.prodPaymentsEnabled
  /\ PaymentAppPlan # NoStr /\ PaymentUserSub.planId # NoStr
  /\ PaymentUserSub.planId # PaymentAppPlan
  /\ PaymentUserSub.status = "past_due"
  /\ resp.error.name = "SubscribedToIncorrectPlan"

\* a user on the app's plan whose subscription is past due
C17_WitnessInactive ==
  /\ resp.op = "validatePayment"
  /\ PaymentUserSub.planId = PaymentAppPlan
  /\ PaymentUserSub.status = "past_due"
  /\ resp.error.name = "SubscriptionInactive"

\* a user on another plan with an active subscription
C17_WitnessIncorrectPlan ==
  /\ resp.op = "validatePayment"
  /\ PaymentUserSub.status = "active"
  /\ resp.error.name = "SubscribedToIncorrectPlan"

(* ============== claims: integrity checks on billing events ============ *)
\* two apps with the same plans, each owned by its own admin with its own
\* Stripe account
InitIntegrity ==
  /\ InitStore
  /\ apps = [a \in AppIds |->
               [PlainApp(IF a = "app1" THEN "adm1" ELSE "adm2")
                  EXCEPT !.testPlanId = "plan1", !.prodPlanId = "plan2"]]
  /\ admins = [a \in AdminIds |->
                 [PaidAdmin EXCEPT !.stripeAccountId = IF a = "adm1" THEN "acct1" ELSE "acct2"]]

\* events naming any user, admin, app, plan, environment and Stripe account
IntegrityEvents ==
  {e \in Events : /\ e.subscriptionId = "sub1" /\ e.status = "active" /\ e.cancelAt = NoTime
                  /\ e.eventTimestamp = 1}

\* one user of app1; the events of one webhook at a time, while the other app
\* and its admin are deleted
NextIntegrity ==
  \/ /\ ~users[<<"app1", "alice">>].exists
     /\ signUp("app1", "alice", "pw1", "pk1", "a@x")
  \/ \E e \in IntegrityEvents : updateSubscriptionRead(1, e)
  \/ updateSubscriptionWrite(1)
  \/ AllIdle /\ deleteApp("app2")
  \/ AllIdle /\ deleteAdmin("adm2")

SpecIntegrity == InitIntegrity /\ [][NextIntegrity]_vars

\* the checks of the metadata of event e against the stored admin, app and user
IntegrityChecksPass(e) ==
  /\ findAdminByAdminId(e.adminId).exists
  /\ getAppByAppId(e.appId).exists
  /\ UsersWithUserId(e.userId) # {}
  /\ getAppByAppId(e.appId).adminId = e.adminId
  /\ \A k \in UsersWithUserId(e.userId) : k[1] = e.appId
  /\ findAdminByAdminId(e.adminId).stripeAccountId = e.stripeAccountId
  /\ appPlanId(getAppByAppId(e.appId), e.isProduction) = e.planId

\* the step is the part of updateSubscriptionInDdb that reads and checks
SubscriptionRead ==
  /\ resp'.op = "updateSubscriptionInDdb"
  /\ resp'.outcome \in {"dropped", "pending"} \/ resp'.key = <<NoStr, NoStr>>

\* C18: updateSubscriptionInDdb applies an event only if the admin, app and user
\* of its metadata exist, the app is the admin's, the user is the app's, the
\* admin's Stripe account is the one the event came from and the plan is the
\* app's plan for the event's environment; when a check fails the call returns
\* normally, goes on to no update and leaves the user records unchanged.
C18_IntegrityChecks ==
  [][/\ resp'.op = "updateSubscriptionInDdb" /\ resp'.outcome = "applied"
          => IntegrityChecksPass(resp'.event)
     /\ SubscriptionRead /\ ~IntegrityChecksPass(resp'.event)
          => /\ resp'.outcome = "dropped"
             /\ users' = users
             /\ \A p \in Procs : procs'[p].pc # "updateSubscription"]_vars

\* an event of the right user and app that arrived from another Stripe account
C18_Witness ==
  /\ resp.op = "updateSubscriptionInDdb"
  /\ resp.outcome = "dropped"
  /\ findAdminByAdminId(resp.event.adminId).exists
  /\ getAppByAppId(resp.event.appId).adminId = resp.event.adminId
  /\ \E k \in UsersWithUserId(resp.event.userId) : k[1] = resp.event.appId
  /\ appPlanId(getAppByAppId(resp.event.appId), resp.event.isProduction) = resp.event.planId
  /\ findAdminByAdminId(resp.event.adminId).stripeAccountId # resp.event.stripeAccountId

(* ===================== claims: the lockout response =================== *)
\* C19: every operation whose password check is refused by the lockout, signIn
\* and updateUser alike, answers its caller Unauthorized with the
\* PasswordAttemptLimitExceeded error (the object that carries the '24 hours'
\* delay), which is not the answer to a plain incorrect password.
C19_LockoutSurfaced ==
  IsPasswordCheck /\ resp.check = "PasswordAttemptLimitExceeded"
    => /\ resp.status = "Unauthorized"
       /\ resp.message = "PasswordAttemptLimitExceeded"

\* the half of C19 that the code keeps: signIn surfaces the lockout
SignInSurfacesLockout ==
  resp.op = "signIn" /\ resp.check = "PasswordAttemptLimitExceeded"
    => /\ resp.status = "Unauthorized"
       /\ resp.message = "PasswordAttemptLimitExceeded"

(* ============ claims: missing and soft-deleted look the same ========== *)
\* the auth tokens issued so far
IssuedAuthTokens == {t \in Tokens : t % 2 = 0 /\ t < nextToken}

UsersLive == \A k \in UserKeys : ~users[k].deleted

AppsLive == \A a \in AppIds : apps[a].exists /\ ~apps[a].deleted

AdminsLive == \A a \in AdminIds : admins[a].exists /\ ~admins[a].deleted

\* a user in each of two apps, each app with its own admin; one request at a time,
\* and in one behaviour the deletions are all of users, all of apps or all of admins
NextUniform ==
  \/ \E appId \in AppIds :
       /\ AllIdle /\ pending = EmptyBag
       /\ ~users[<<appId, "alice">>].exists
       /\ signUp(appId, "alice", "pw1", "pk1", "a@x")
  \/ \E appId \in AppIds : Quiet /\ signIn(appId, "alice", "pw1")
  \/ \E w \in BagToSet(pending) : ApplyBookkeeping(w)
  \/ \E appId \in AppIds : Quiet /\ getPasswordSaltsController(appId, "Alice")
  \/ \E sessionId \in SessionIds :
       /\ sessionId < nextToken /\ pending = EmptyBag
       /\ authenticateUser(1, sessionId, sessions[sessionId].appId)
  \/ extendSession(1)
  \/ \E authToken \in IssuedAuthTokens :
       /\ Quiet
       /\ verifyAuthToken(getAppByAppId(_getSessionByAuthToken(authToken).appId).adminId, authToken)
  \/ \E userId \in UserIds : Quiet /\ AppsLive /\ AdminsLive /\ deleteUserController(userId)
  \/ \E appId \in AppIds : Quiet /\ UsersLive /\ AdminsLive /\ deleteApp(appId)
  \/ \E adminId \in AdminIds : Quiet /\ UsersLive /\ AppsLive /\ deleteAdmin(adminId)

SpecUniform == InitVerify /\ [][NextUniform]_vars

AuthorizationOps == {"signIn", "authenticateUser", "verifyAuthToken", "getPasswordSalts"}

\* the session, if valid, that the request behind response r named
RequestSession(r) ==
  IF r.op = "verifyAuthToken" THEN _getSessionByAuthToken(r.authToken)
  ELSE IF r.op = "authenticateUser" THEN _getSesssion(r.sessionId)
  ELSE NoSession

\* the app, admin and user that the request behind response r involves
RequestApp(r) ==
  IF r.op \in {"signIn", "getPasswordSalts"} THEN getAppByAppId(r.appId)
  ELSE getAppByAppId(RequestSession(r).appId)

RequestAdmin(r) == findAdminByAdminId(RequestApp(r).adminId)

RequestUser(r) ==
  IF r.op \in {"signIn", "getPasswordSalts"} THEN getUser(r.key[1], r.key[2])
  ELSE getUserByUserId(RequestSession(r).userId)

\* the request behind r named something to look up: a session that is valid
RequestResolves(r) ==
  /\ r.op \in AuthorizationOps
  /\ r.op \in {"verifyAuthToken", "authenticateUser"}
       => _validateSession(RequestSession(r), clock) = "ok"

StateOf(item) == IF ~item.exists THEN "missing" ELSE IF item.deleted THEN "deleted" ELSE "live"

\* the admin is the one the app names: with no app there is none to speak of
AdminStateOf(r) == IF ~RequestApp(r).exists THEN "unknown" ELSE StateOf(RequestAdmin(r))

\* the requests behind r1 and r2 are of one kind, and their apps, admins and users
\* are in the same state except that where one is missing the other is soft-deleted
DifferOnlyInDeletion(r1, r2) ==
  LET same(a, b) == a = b \/ {a, b} = {"missing", "deleted"} \/ "unknown" \in {a, b}
  IN
  /\ r1.op = r2.op
  /\ RequestResolves(r1) /\ RequestResolves(r2)
  /\ same(StateOf(RequestApp(r1)), StateOf(RequestApp(r2)))
  /\ same(AdminStateOf(r1), AdminStateOf(r2))
  /\ same(StateOf(RequestUser(r1)), StateOf(RequestUser(r2)))
  /\ \/ StateOf(RequestApp(r1)) # StateOf(RequestApp(r2))
     \/ "unknown" \notin {AdminStateOf(r1), AdminStateOf(r2)} /\ AdminStateOf(r1) # AdminStateOf(r2)
     \/ StateOf(RequestUser(r1)) # StateOf(RequestUser(r2))

\* C20: for signIn, authenticateUser, verifyAuthToken and
\* getPasswordSaltsController, two requests that differ only in that the app,
\* admin or user of one does not exist where that of the other is soft-deleted
\* get the same status and the same message.
C20_MissingLooksLikeDeleted ==
  [][DifferOnlyInDeletion(resp, resp')
       => resp'.status = resp.status /\ resp'.message = resp.message]_vars

\* the same, of the requests of one operation
MissingLooksLikeDeletedTo(op) ==
  resp.op = op /\ DifferOnlyInDeletion(resp, resp')
    => resp'.status = resp.status /\ resp'.message = resp.message

AuthenticateUserIsUniform == [][MissingLooksLikeDeletedTo("authenticateUser")]_vars

VerifyAuthTokenIsUniform == [][MissingLooksLikeDeletedTo("verifyAuthToken")]_vars

SignInIsUniform == [][MissingLooksLikeDeletedTo("signIn")]_vars

GetPasswordSaltsIsUniform == [][MissingLooksLikeDeletedTo("getPasswordSalts")]_vars

(* ============== claims: the length of ids and tokens ================== *)
\* a value that is no string of the length of a session id, an auth token or
\* a UUID, and is not missing either
WrongLengthId == 2 * MaxSessions + MaxUsers + 2

\* one user of app1; session ids, auth tokens and user ids of the right and
\* of the wrong length are presented, and some are missing
NextLength ==
  \/ /\ ~users[<<"app1", "alice">>].exists
     /\ signUp("app1", "alice", "pw1", "pk1", "a@x")
  \/ \E sessionId \in PresentedIds \cup {NoId, WrongLengthId} :
       authenticateUser(1, sessionId, "app1")
  \/ extendSession(1)
  \/ \E adminId \in AdminIds, authToken \in PresentableTokens \cup {WrongLengthId} :
       verifyAuthToken(adminId, authToken)
  \/ \E adminId \in AdminIds, userId \in UserIds \cup {NoId, WrongLengthId} :
       adminGetUserController(adminId, userId)
  \/ \E sessionId \in PresentableSessionIds : signOut(sessionId)
  \/ Tick

SpecLength == InitVerify /\ [][NextLength]_vars

ClientErrors == {"Bad Request", "Unauthorized", "Forbidden", "Not Found"}

\* the request answered last was given a value of the wrong length
WrongLengthGiven(op) ==
  /\ resp.op = op
  /\ \/ op = "authenticateUser" /\ resp.sessionId = WrongLengthId
     \/ op = "verifyAuthToken" /\ resp.authToken = WrongLengthId
     \/ op = "adminGetUser" /\ resp.userId = WrongLengthId

RejectedBeforeLookup == resp.status \in ClientErrors /\ ~resp.lookedUp

\* an auth token of the wrong length is refused by verifyAuthToken before the
\* auth-token index is queried with it
VerifyAuthTokenChecksLength ==
  WrongLengthGiven("verifyAuthToken") => RejectedBeforeLookup /\ resp.status = "Bad Request"

\* a user id of the wrong length is refused by the admin route before the
\* user-id index is queried with it
AdminGetUserChecksLength ==
  WrongLengthGiven("adminGetUser") => RejectedBeforeLookup /\ resp.status = "Bad Request"

\* C21: a session id given to authenticateUser, an auth token given to
\* verifyAuthToken and a user id given to the admin user route that has the
\* wrong length is answered with a client error, and no table is read with it
C21_WrongLengthRejectedBeforeLookup ==
  /\ WrongLengthGiven("authenticateUser") => RejectedBeforeLookup
  /\ VerifyAuthTokenChecksLength
  /\ AdminGetUserChecksLength

(* ================ claims: updateUser keeps the user id ================ *)
\* two users of one app; two requests at a time rename them and one changes
\* passwords, between sign-ups, while the updates of password checks land
NextUserId ==
  \/ \E username \in {"alice", "bob"} :
       Quiet /\ signUp("app1", username, "pw1", "pk1", "a@x")
  \/ \E p \in Procs, userId \in UserIds, username \in {"Alice", "bob", NoStr},
        passwordToken \in {NoStr, "pw2"} :
       /\ userId < nextUserId
       /\ p = 2 => procs[1].pc # "idle" /\ passwordToken = NoStr
       /\ pending = EmptyBag
       /\ \A k \in UserKeys : users[k].attempts <= 0 /\ hist.wrongInRow[k] = 0
       /\ updateUserRead(p, userId, username, "pw1", passwordToken)
  \/ \E p \in Procs : updateUserWrite(p)
  \/ \E w \in BagToSet(pending) : ApplyBookkeeping(w)

SpecUserId == InitPassword /\ [][NextUserId]_vars

\* request p ends in this step with a successful answer
UpdateUserSucceeds(p) ==
  /\ procs[p].pc = "updateUser"
  /\ procs'[p].pc = "idle"
  /\ resp'.op = "updateUser"
  /\ resp'.status = "Success"

\* C22: every updateUser that succeeds leaves the user id of the user as it
\* was: the record it wrote carries the user id of the record that was there
\* before, and when the username changes the record put under the new username
\* carries the user id of the record deleted under the old one.
C22_UpdateUserKeepsUserId ==
  [][\A p \in Procs :
       UpdateUserSucceeds(p)
       => IF RenameWrite(p)
          THEN /\ users[procs[p].key].exists
               /\ ~users'[procs[p].key].exists
               /\ users'[RenameTarget(p)].exists
               /\ users'[RenameTarget(p)].userId = users[procs[p].key].userId
               /\ users'[RenameTarget(p)].userId = procs[p].userId
          ELSE /\ \A k \in UserKeys : users'[k].userId = users[k].userId
               /\ procs[p].passwordToken # NoStr
                  => /\ users'[procs[p].key].exists
                     /\ users'[procs[p].key].userId = procs[p].userId]_vars

\* a rename has succeeded and the user is found under the new username
C22_Witness ==
  /\ resp.op = "updateUser"
  /\ resp.status = "Success"
  /\ resp.key[2] = "bob"
  /\ resp.userId = 1
  /\ users[resp.key].userId = 1
  /\ ~users[<<"app1", "alice">>].exists

\* a change of password has succeeded
C22_WitnessPassword ==
  /\ resp.op = "updateUser"
  /\ resp.status = "Success"
  /\ users[resp.key].exists
  /\ users[resp.key].passwordToken = sha256("pw2")
  /\ users[resp.key].userId = resp.userId

(* ========== claims: the precondition of user-record writes ============ *)
\* request p ends in this step, and the record it read is no longer under its
\* username with its user id
UpdateUserWriteFindsUserGone(p) ==
  /\ procs[p].pc = "updateUser"
  /\ procs'[p].pc = "idle"
  /\ ~conditionCheckUserExists(procs[p].key, procs[p].userId)

\* the write of updateUser carries the precondition: it changes nothing when
\* the record has gone or carries another user id
UpdateUserWriteIsConditioned ==
  [][\A p \in Procs : UpdateUserWriteFindsUserGone(p) => users' = users]_vars

\* this step is the landing of an update issued by a password check, on a
\* username that holds no record any more
BookkeepingWriteFindsUserGone ==
  /\ resp'.op = "bookkeeping"
  /\ ~users[resp'.key].exists

\* C23: every write of a user record, the writes of the password check
\* included, changes nothing and creates no record when the record is no
\* longer under (appId, username) with the expected user id.
C23_WritesCarryPrecondition ==
  [][/\ \A p \in Procs : UpdateUserWriteFindsUserGone(p) => users' = users
     /\ BookkeepingWriteFindsUserGone => users' = users]_vars

(* ============= claims: the counter of incorrect attempts ============== *)
\* one user, whose counter is unset or one below the limit after the checks
\* made so far and whose sessions have expired
InitIncrement ==
  /\ clock = 0
  /\ \E a \in {NoCount, MAX_INCORRECT_PASSWORD_GUESSES - 1} :
       /\ users = [k \in UserKeys |->
                     IF k = <<"app1", "alice">>
                     THEN [SignedUp(1, "pw1", "pk1") EXCEPT !.attempts = a]
                     ELSE NoUser]
       /\ hist = [fresh |-> NoFresh,
                  wrongInRow |-> [k \in UserKeys |->
                                    IF k = <<"app1", "alice">> /\ a # NoCount THEN a ELSE 0],
                  proofs |-> [u \in UserIds |-> [made |-> 0, ok |-> 0]]]
  /\ sessions = [t \in Tokens |-> NoSession]
  /\ apps = [a \in AppIds |-> IF a = "app1" THEN PlainApp("adm1") ELSE NoApp]
  /\ admins = [a \in AdminIds |-> IF a = "adm1" THEN PaidAdmin ELSE NoAdmin]
  /\ nextUserId = 2
  /\ nextToken = 1
  /\ nextTemp = 1
  /\ pending = EmptyBag
  /\ procs = [p \in Procs |-> NoProc]
  /\ resp = [op |-> "none"]

\* the failed checks made in a row so far
ChecksCounted == hist.wrongInRow[<<"app1", "alice">>]

\* the password checks of signIn that fail start without waiting for the
\* updates that the checks before them have issued, which land in any order
NextIncrement ==
  \/ \E pw \in PasswordTokens \cup TempPasswordTokens :
       /\ ChecksCounted \in 0..1 \cup (MAX_INCORRECT_PASSWORD_GUESSES - 1)..(MaxAttempts - 1)
       /\ pw # "pw2" => Quiet
       /\ signIn("app1", "Alice", pw)
  \/ /\ Quiet
     /\ ChecksCounted \in {0, MAX_INCORRECT_PASSWORD_GUESSES - 1}
     /\ generateForgotPasswordToken(1, "app1", "alice", "m1")
  \/ forgotPassword(1, base64("m1"))
  \/ \E w \in BagToSet(pending) : ApplyBookkeeping(w)
  \/ Tick

SpecIncrement == InitIncrement /\ [][NextIncrement]_vars

Increment(key) == Write("_incrementIncorrectPasswordAttempt", key)

\* the number of increments this step issues on the item under key
IncrementsIssued(key) == CopiesIn(Increment(key), pending') - CopiesIn(Increment(key), pending)

\* this step runs _validatePassword on the record it reads
PasswordCheckStep ==
  /\ resp'.op = "signIn"
  /\ resp'.check # "skipped"
  /\ resp'.key \in UserKeys

\* the check is evaluated and fails: the lockout is not in force, the token is
\* not the password, and it is not the temp password stored, or that has expired
CheckFails ==
  LET user == users[resp'.key]
      hash == sha256(resp'.passwordToken)
  IN
  /\ ~limitExceeded(user, clock)
  /\ hash # user.passwordToken
  /\ \/ user.tempPasswordToken = NoHash
     \/ hash # user.tempPasswordToken
     \/ clock - user.tempPasswordCreationDate > MS_IN_A_DAY

\* this step is the landing of an increment
IncrementLands ==
  /\ resp'.op = "bookkeeping"
  /\ resp'.kind = "_incrementIncorrectPasswordAttempt"

StoredAttempts(user) == IF user.attempts = NoCount THEN 0 ELSE user.attempts

\* C24: a password check that is evaluated and fails issues exactly one
\* increment of the counter, a check that succeeds or is refused by the lockout
\* issues none, and every increment that lands adds 1 to the counter stored at
\* that moment and changes nothing else, whatever was read by the check.
C24_OneIncrementPerFailedCheck ==
  [][/\ PasswordCheckStep
        => /\ IncrementsIssued(resp'.key) = (IF CheckFails THEN 1 ELSE 0)
           /\ \A k \in UserKeys \ {resp'.key} : IncrementsIssued(k) = 0
           /\ users' = users
     /\ IncrementLands
        => /\ users'[resp'.key].attempts = StoredAttempts(users[resp'.key]) + 1
           /\ users' = [users EXCEPT ![resp'.key].attempts = users'[resp'.key].attempts]
           /\ \A k \in UserKeys : IncrementsIssued(k) = (IF k = resp'.key THEN 0 - 1 ELSE 0)
    ]_vars

\* the increments of two failed checks that ran on the same record have both
\* landed: the counter is 2
C24_Witness ==
  /\ resp.op = "bookkeeping"
  /\ resp.kind = "_incrementIncorrectPasswordAttempt"
  /\ users[resp.key].attempts = 2
  /\ hist.wrongInRow[resp.key] = 2
  /\ pending = EmptyBag

\* two failed checks are in flight at once
C24_WitnessConcurrent ==
  /\ IsPasswordCheck
  /\ resp.check = "Incorrect password or temp password"
  /\ CopiesIn(Increment(resp.key), pending) = 2
  /\ users[resp.key].attempts = NoCount

\* a check refused by the lockout, and a check with an expired temp password
C24_WitnessLockout ==
  /\ IsPasswordCheck
  /\ resp.check = "PasswordAttemptLimitExceeded"
  /\ CopiesIn(Increment(resp.key), pending) = 0

C24_WitnessExpired ==
  /\ IsPasswordCheck
  /\ resp.check = "Temp password expired"
  /\ CopiesIn(Increment(resp.key), pending) = 1

(* ================= claims: the reset of the counter =================== *)
Reset(key) == Write("_allowUserToRetryPassword", key)

\* the number of resets this step issues on the item under key
ResetsIssued(key) == CopiesIn(Reset(key), pending') - CopiesIn(Reset(key), pending)

\* the check of this step reaches the comparison of the token
ReachesComparison == ~limitExceeded(users[resp'.key], clock)

\* the token of this step's check is the password of the record read
TokenIsThePassword == sha256(resp'.passwordToken) = users[resp'.key].passwordToken

\* the token of this step's check is not the password but the temp password
\* of the record read, which has not expired
TokenIsOnlyTheTempPassword ==
  LET user == users[resp'.key]
  IN
  /\ ~TokenIsThePassword
  /\ user.tempPasswordToken # NoHash
  /\ sha256(resp'.passwordToken) = user.tempPasswordToken
  /\ clock - user.tempPasswordCreationDate <= MS_IN_A_DAY

\* the counter read is at the limit: the check clears the expired lockout
ClearsExpiredLockout == overLimit(users[resp'.key])

\* this step is the landing of a reset
ResetLands ==
  /\ resp'.op = "bookkeeping"
  /\ resp'.kind = "_allowUserToRetryPassword"

\* a check with the password issues the reset, and the reset that lands puts
\* the counter at 0 and removes suspendedAt
CorrectPasswordResets ==
  /\ PasswordCheckStep /\ ReachesComparison /\ TokenIsThePassword
     => /\ resp'.check = "none"
        /\ ResetsIssued(resp'.key) >= 1
  /\ ResetLands
     => /\ users'[resp'.key].attempts = 0
        /\ users'[resp'.key].suspendedAt = NoTime
        /\ users' = [users EXCEPT ![resp'.key].exists = TRUE,
                                  ![resp'.key].attempts = 0,
                                  ![resp'.key].suspendedAt = NoTime]

\* C25 as stated: a check with the password resets the counter and removes
\* suspendedAt, and a check that succeeds by the temp password alone issues no
\* reset of the counter.
C25_TempPasswordNeverResets ==
  [][/\ CorrectPasswordResets
     /\ PasswordCheckStep /\ ReachesComparison /\ TokenIsOnlyTheTempPassword
        => ResetsIssued(resp'.key) = 0]_vars

\* C25: a check with the password resets the counter and removes suspendedAt;
\* a check that succeeds by the temp password alone issues no reset, unless
\* the counter it read was at the limit and the lockout had expired: then it
\* issues the one reset that clears the expired lockout.
C25_CorrectPasswordResets ==
  [][/\ CorrectPasswordResets
     /\ PasswordCheckStep /\ ReachesComparison /\ TokenIsOnlyTheTempPassword
        => /\ resp'.check = "none"
           /\ ResetsIssued(resp'.key) = (IF ClearsExpiredLockout THEN 1 ELSE 0)]_vars

\* a day on, the reset issued by a check with the password has landed
C25_Witness ==
  /\ resp.op = "bookkeeping"
  /\ resp.kind = "_allowUserToRetryPassword"
  /\ users[resp.key].attempts = 0
  /\ users[resp.key].suspendedAt = NoTime
  /\ hist.wrongInRow[resp.key] = 0
  /\ clock >= MS_IN_A_DAY

\* a sign-in by the temp password alone, far from the limit: no reset in flight
C25_WitnessTempPassword ==
  /\ resp.op = "signIn"
  /\ resp.status = "Success"
  /\ resp.usedTempPassword
  /\ users[resp.key].attempts < MAX_INCORRECT_PASSWORD_GUESSES
  /\ pending = EmptyBag

\* a sign-in by the temp password alone that has cleared an expired lockout
C25_WitnessTempPasswordAtLimit ==
  /\ resp.op = "signIn"
  /\ resp.status = "Success"
  /\ resp.usedTempPassword
  /\ users[resp.key].attempts >= MAX_INCORRECT_PASSWORD_GUESSES
  /\ CopiesIn(Reset(resp.key), pending) = 1

(* ============ claims: the outcome of a password check ================= *)
\* sign-ins that fail start without waiting for the updates of the checks
\* before them; an update in flight lands or is refused by the table
NextOutcome ==
  \/ \E pw \in PasswordTokens \cup TempPasswordTokens :
       /\ ChecksCounted \in {0} \cup (MAX_INCORRECT_PASSWORD_GUESSES - 1)..(MaxAttempts - 1)
       /\ pw # "pw2" => Quiet
       /\ signIn("app1", "Alice", pw)
  \/ Quiet /\ ChecksCounted = 0 /\ generateForgotPasswordToken(1, "app1", "alice", "m1")
  \/ forgotPassword(1, base64("m1"))
  \/ \E w \in BagToSet(pending) : ApplyBookkeeping(w)
  \/ \E w \in BagToSet(pending) : FailBookkeeping(w)
  \/ Tick

SpecOutcome == InitIncrement /\ [][NextOutcome]_vars

Suspend(key) == Write("_suspendUser", key)

\* the number of suspensions this step issues on the item under key
SuspendsIssued(key) == CopiesIn(Suspend(key), pending') - CopiesIn(Suspend(key), pending)

\* the updates _validatePassword calls for on the record read: the suspension
\* when the counter is at the limit and no suspension is stored, a reset when
\* the lockout has expired, a reset when the token is the password
SuspensionDue == overLimit(users[resp'.key]) /\ users[resp'.key].suspendedAt = NoTime

ResetsDue ==
  (IF ReachesComparison /\ ClearsExpiredLockout THEN 1 ELSE 0)
  + (IF ReachesComparison /\ TokenIsThePassword THEN 1 ELSE 0)

\* the step before this one was a check of the same record with the same token
\* at the same time: this step repeats it while its updates are in flight, have
\* landed or were refused
SameCheckAgain ==
  /\ IsPasswordCheck
  /\ PasswordCheckStep
  /\ resp'.op = resp.op
  /\ resp'.key = resp.key
  /\ resp'.passwordToken = resp.passwordToken

\* this step ends an update in flight: it lands or is refused
UpdateEnds == resp'.op \in {"bookkeeping", "bookkeepingFailed"}

\* C26: the outcome of a password check depends on the record read, the token
\* and the clock alone: a check repeated on the same record at the same time
\* has the same outcome whatever updates are in flight; every update the check
\* calls for is issued in the step that answers; an update that lands late or
\* is refused changes no session and fails no request.
C26_OutcomeWithoutBookkeeping ==
  [][/\ SameCheckAgain => resp'.check = resp.check /\ resp'.message = resp.message
     /\ PasswordCheckStep
        => /\ SuspendsIssued(resp'.key) = (IF SuspensionDue THEN 1 ELSE 0)
           /\ ResetsIssued(resp'.key) = ResetsDue
           /\ IncrementsIssued(resp'.key) = (IF CheckFails THEN 1 ELSE 0)
           /\ BagCardinality(pending') - BagCardinality(pending)
                = SuspendsIssued(resp'.key) + ResetsIssued(resp'.key)
                  + IncrementsIssued(resp'.key)
           /\ resp'.status \in {"Success", "Unauthorized"}
     /\ UpdateEnds => UNCHANGED <<sessions, procs, clock>>
     /\ resp'.op = "bookkeepingFailed" => UNCHANGED users]_vars

\* a check is repeated while the update of the check before it is in flight
C26_Witness ==
  /\ IsPasswordCheck
  /\ resp.check = "Incorrect password or temp password"
  /\ CopiesIn(Increment(resp.key), pending) = 2
  /\ users[resp.key].attempts = MAX_INCORRECT_PASSWORD_GUESSES - 1

\* an update was refused after the sign-in it came from had succeeded
C26_WitnessRefused ==
  /\ resp.op = "bookkeepingFailed"
  /\ resp.kind = "_allowUserToRetryPassword"
  /\ \E t \in Tokens : sessions[t].exists /\ sessions[t].userId = users[resp.key].userId

(* ============== claims: billing events in any order =================== *)
\* the valid events of one user: in each environment one event per timestamp,
\* those of even timestamps of an active subscription without cancelAt, the
\* others of one past due that is to be cancelled
DeliveryEvents ==
  {e \in BillingEvents :
     /\ e.userId = 1
     /\ e.status = IF e.eventTimestamp % 2 = 0 THEN "active" ELSE "past_due"}

\* the webhooks of these events, in any order and any number of times, two at
\* a time
NextDelivery ==
  \/ /\ ~users[<<"app1", "alice">>].exists
     /\ signUp("app1", "alice", "pw1", "pk1", "a@x")
  \/ \E p \in Procs, e \in DeliveryEvents :
       /\ p = 2 => procs[1].pc # "idle"
       /\ updateSubscriptionRead(p, e)
  \/ \E p \in Procs : updateSubscriptionWrite(p)

SpecDelivery == InitBilling /\ [][NextDelivery]_vars

\* the subscription fields an event carries
SubOf(e) ==
  [customerId |-> e.customerId, subscriptionId |-> e.subscriptionId, planId |-> e.planId,
   status |-> e.status, cancelAt |-> e.cancelAt, eventTimestamp |-> e.eventTimestamp]

\* the fields stored are those of one event, whole: the event of the
\* environment that has the stored timestamp
StoredIsOneEvent(user) ==
  \A env \in Envs :
    \/ user.sub[env] = NoSub
    \/ \E e \in DeliveryEvents :
         /\ Env(e.isProduction) = env
         /\ e.eventTimestamp = user.sub[env].eventTimestamp
         /\ user.sub[env] = SubOf(e)

\* C27: the events of a user and an environment having pairwise distinct
\* timestamps, after any deliveries in any order the fields stored are those of
\* the delivered event with the greatest timestamp, cancelAt absent when that
\* event carries none: the stored fields are always those of one event, whole;
\* once an event is delivered the stored timestamp is at least its own; and
\* the stored timestamp never decreases.
C27_GreatestTimestampWins ==
  [][/\ StoredIsOneEvent(users'[<<"app1", "alice">>])
     /\ SubscriptionWrite /\ StillTheUser
        => users'[resp'.key].sub[Env(resp'.event.isProduction)].eventTimestamp
             >= resp'.event.eventTimestamp
     /\ \A env \in Envs :
          users'[<<"app1", "alice">>].sub[env].eventTimestamp
            >= users[<<"app1", "alice">>].sub[env].eventTimestamp]_vars

\* the event with the greatest timestamp was delivered, then an older one,
\* which was delivered last: the fields stored are those of the greatest
C27_Witness ==
  /\ resp.op = "updateSubscriptionInDdb"
  /\ resp.outcome = "raised"
  /\ resp.event \in DeliveryEvents
  /\ resp.event.eventTimestamp < MaxEventTimestamp
  /\ \E e \in DeliveryEvents :
       /\ e.isProduction = resp.event.isProduction
       /\ e.eventTimestamp = MaxEventTimestamp
       /\ users[resp.key].sub[Env(e.isProduction)] = SubOf(e)

\* an event without cancelAt came after an older one: no cancelAt is stored
C27_WitnessInOrder ==
  /\ resp.op = "updateSubscriptionInDdb"
  /\ resp.outcome = "applied"
  /\ resp.event.eventTimestamp > 1
  /\ resp.event.cancelAt = NoTime
  /\ users[resp.key].sub[Env(resp.event.isProduction)].cancelAt = NoTime
  /\ users[resp.key].sub[Env(resp.event.isProduction)] = SubOf(resp.event)

(* ========= claims: the event timestamp under other writes ============= *)
\* one user with billing events in both environments, while one request
\* renames the user or changes the password, the user is deleted and the
\* updates of password checks land
NextTimestamp ==
  \/ /\ ~users[<<"app1", "alice">>].exists
     /\ nextUserId = 1
     /\ signUp("app1", "alice", "pw1", "pk1", "a@x")
  \/ \E username \in {"bob", NoStr}, passwordToken \in {NoStr, "pw2"} :
       /\ nextUserId > 1
       /\ pending = EmptyBag
       /\ ChecksCounted = 0
       /\ updateUserRead(1, 1, username, "pw1", passwordToken)
  \/ updateUserWrite(1)
  \/ \E e \in DeliveryEvents : updateSubscriptionRead(2, e)
  \/ updateSubscriptionWrite(2)
  \/ deleteUserController(1)
  \/ \E w \in BagToSet(pending) : ApplyBookkeeping(w)

SpecTimestamp == InitBilling /\ [][NextTimestamp]_vars

\* the event timestamps stored for a user id in an environment, before and
\* after the step
StoredTimestamps(userId, env) ==
  {users[k].sub[env].eventTimestamp : k \in UsersWithUserId(userId)} \ {NoTime}

StoredTimestampsAfter(userId, env) ==
  {users'[k].sub[env].eventTimestamp :
     k \in {j \in UserKeys : users'[j].exists /\ users'[j].userId = userId}} \ {NoTime}

\* a step that leaves a timestamp stored for the user id, none lower than
\* those stored before it
TimestampKept(userId, env) ==
  \A before \in StoredTimestamps(userId, env) :
    /\ StoredTimestampsAfter(userId, env) # {}
    /\ \A after \in StoredTimestampsAfter(userId, env) : after >= before

\* the steps other than the write of a rename keep the timestamp
TimestampKeptWithoutRename ==
  [][(\A p \in Procs : ~RenameWrite(p))
       => \A userId \in UserIds, env \in Envs : TimestampKept(userId, env)]_vars

\* C28: for each user id and each environment the stored event timestamp
\* never decreases and never disappears once it is set, whatever operations
\* write the user record in between.
C28_TimestampNeverDecreases ==
  [][\A userId \in UserIds, env \in Envs : TimestampKept(userId, env)]_vars

(* ============== claims: records whose seed is saved =================== *)
\* users sign up and prove possession of their key on one connection, while a
\* second request renames them or changes their password and the updates of
\* its password check land
NextSeed ==
  \/ \E username \in {"alice", "bob"} :
       Quiet /\ signUp("app1", username, "pw1", "pk1", "a@x")
  \/ \E sessionId \in PresentableSessionIds : authenticateUser(1, sessionId, "app1")
  \/ /\ procs[1].pc = "authenticated"
     /\ hist.proofs[procs[1].user.userId].made = 0
     /\ validateKey(1, "m1", base64("m1"))
  \/ \E userId \in UserIds, username \in {"Alice", "bob", NoStr}, passwordToken \in {NoStr, "pw2"} :
       /\ userId < nextUserId
       /\ pending = EmptyBag
       /\ \A k \in UserKeys : users[k].attempts <= 0 /\ hist.wrongInRow[k] = 0
       /\ updateUserRead(2, userId, username, "pw1", passwordToken)
  \/ updateUserWrite(2)
  \/ \E w \in BagToSet(pending) : ApplyBookkeeping(w)

SpecSeed == InitPassword /\ [][NextSeed]_vars

\* validateKey has succeeded for this user id: its seed was saved
SeedSaved(userId) == userId \in UserIds /\ hist.proofs[userId].ok >= 1

\* every record that carries a user id and no seedNotSavedYet is of a user id
\* for which validateKey has succeeded
SeedSavedByValidateKey ==
  \A k \in UserKeys :
    users[k].exists /\ users[k].userId # NoId /\ ~users[k].seedNotSavedYet
      => SeedSaved(users[k].userId)

\* C29: every user record in which seedNotSavedYet is unset belongs to a user
\* id for which validateKey has succeeded at least once.
C29_SeedSavedOnlyByValidateKey ==
  \A k \in UserKeys :
    users[k].exists /\ ~users[k].seedNotSavedYet => SeedSaved(users[k].userId)

(* ================ claims: one record per user id ====================== *)
\* the users of one app, who sign up as alice when the username is free, and
\* three usernames; two requests at a time rename them while they are deleted
\* and purged
NextUnique ==
  \/ /\ ~users[<<"app1", "alice">>].exists
     /\ signUp("app1", "alice", "pw1", "pk1", "a@x")
  \* the second request races the first one for the same user
  \/ \E p \in Procs, userId \in UserIds, username \in {"alice", "bob", "carol"} :
       /\ userId < nextUserId
       /\ p = 2 => procs[1].pc = "updateUser" /\ userId = procs[1].userId
       /\ p = 1 => username # "alice"
       /\ updateUserRead(p, userId, username, NoStr, NoStr)
  \/ \E p \in Procs : updateUserWrite(p)
  \/ \E userId \in UserIds :
       /\ UsersWithUserId(userId) # {}
       /\ deleteUserController(userId)
  \* the purge has read the user under one of the usernames it has had
  \/ \E key \in {"app1"} \X Usernames, userId \in UserIds :
       /\ users[key].exists
       /\ \E k \in UsersWithUserId(userId) : users[k].deleted
       /\ permanentDelete(key, userId)

SpecUnique == InitPassword /\ [][NextUnique]_vars

AtMostOneRecordPerUserId == \A userId \in UserIds : Cardinality(UsersWithUserId(userId)) <= 1

\* requests p and q are renames of the same user that have read the same record
ConcurrentRenames(p, q) ==
  /\ p # q
  /\ procs[q].pc = "updateUser"
  /\ procs[q].username # NoStr
  /\ procs[q].userId = procs[p].userId
  /\ procs[q].key = procs[p].key

\* C30: the users table holds at most one record per user id in every state;
\* of two renames of one user that have read the same record, the one whose
\* transaction runs first succeeds and leaves the other's precondition false,
\* and a rename whose precondition is false fails with UserNotFound and changes
\* nothing.
C30_OneRecordPerUserId ==
  [][/\ \A userId \in UserIds :
          Cardinality({k \in UserKeys : users'[k].exists /\ users'[k].userId = userId}) <= 1
     /\ \A p \in Procs :
          /\ RenameWrite(p) /\ UpdateUserWriteFindsUserGone(p)
             => /\ resp'.status = "Not Found"
                /\ resp'.message = "UserNotFound"
                /\ users' = users
          /\ RenameWrite(p) /\ resp'.status = "Success"
             => \A q \in Procs :
                  ConcurrentRenames(p, q)
                  => ~(users'[procs[q].key].exists
                       /\ users'[procs[q].key].userId = procs[q].userId)]_vars

\* of two renames of user 1 to different usernames, the second has failed with
\* UserNotFound after the first had succeeded
C30_Witness ==
  /\ resp.op = "updateUser"
  /\ resp.status = "Not Found"
  /\ resp.message = "UserNotFound"
  /\ resp.userId = 1
  /\ resp.key = <<"app1", "alice">>
  /\ ~users[<<"app1", "alice">>].exists
  /\ UsersWithUserId(1) = {<<"app1", "bob">>}
  /\ UsersWithUserId(2) = {}

\* a user was purged after the deletion
C30_WitnessPurged ==
  /\ resp.op = "permanentDelete"
  /\ resp.outcome = "deleted"
  /\ UsersWithUserId(resp.userId) = {}

(* ================= claims: what extendSession changes ================= *)
\* one user with the session of the sign-up; since then the user has made no
\* wrong attempt, or the attempts that suspended the account
InitExtend ==
  /\ clock = 0
  /\ \E suspended \in BOOLEAN :
       /\ users = [k \in UserKeys |->
                     IF k = <<"app1", "alice">>
                     THEN IF suspended
                          THEN [SignedUp(1, "pw1", "pk1") EXCEPT
                                  !.attempts = MAX_INCORRECT_PASSWORD_GUESSES,
                                  !.suspendedAt = 0]
                          ELSE SignedUp(1, "pw1", "pk1")
                     ELSE NoUser]
       /\ hist = [fresh |-> NoFresh,
                  wrongInRow |-> [k \in UserKeys |->
                                    IF k = <<"app1", "alice">> /\ suspended
                                    THEN MAX_INCORRECT_PASSWORD_GUESSES ELSE 0],
                  proofs |-> [u \in UserIds |-> [made |-> 0, ok |-> 0]]]
  /\ sessions = [t \in Tokens |->
                   IF t = 1
                   THEN [exists |-> TRUE, authToken |-> 2, userId |-> 1, appId |-> "app1",
                         creationDate |-> 0, extendedDate |-> NoTime, invalidated |-> FALSE,
                         ttl |-> SECONDS_IN_A_DAY]
                   ELSE NoSession]
  /\ apps = [a \in AppIds |-> IF a = "app1" THEN PlainApp("adm1") ELSE NoApp]
  /\ admins = [a \in AdminIds |-> IF a = "adm1" THEN PaidAdmin ELSE NoAdmin]
  /\ nextUserId = 2
  /\ nextToken = 3
  /\ nextTemp = 1
  /\ pending = EmptyBag
  /\ procs = [p \in Procs |-> NoProc]
  /\ resp = [op |-> "none"]

\* the requests of two connections on the session, between whose authentication
\* and extension the user signs out or is deleted and time passes
NextExtend ==
  \/ \E p \in Procs : authenticateUser(p, 1, "app1")
  \/ \E p \in Procs : extendSession(p)
  \/ signOut(1)
  \/ deleteUserController(1)
  \/ Tick

SpecExtend == InitExtend /\ [][NextExtend]_vars

\* the user of the session as the users table holds it now
UserOfSession(sessionId) == getUserByUserId(sessions[sessionId].userId)

\* C31: extendSession sets the session's extended date to the current time and
\* its ttl a day ahead and leaves the item's other attributes, every other
\* session, every user record and the pending user updates as they were; it
\* succeeds whatever the user's deletion or suspension state is by then.
C31_ExtendSessionFrame ==
  [][resp'.op = "extendSession" =>
       LET s == resp'.sessionId
       IN /\ resp'.status = "Success"
          /\ sessions'[s].extendedDate = clock'
          /\ sessions'[s].ttl = clock' + SECONDS_IN_A_DAY
          /\ sessions'[s].exists = sessions[s].exists
          /\ sessions'[s].authToken = sessions[s].authToken
          /\ sessions'[s].userId = sessions[s].userId
          /\ sessions'[s].appId = sessions[s].appId
          /\ sessions'[s].creationDate = sessions[s].creationDate
          /\ sessions'[s].invalidated = sessions[s].invalidated
          /\ \A t \in Tokens \ {s} : sessions'[t] = sessions[t]
          /\ users' = users
          /\ pending' = pending]_vars

\* a session extended, on a later day than its creation, for a user deleted
\* after the request was authenticated
C31_Witness ==
  /\ resp.op = "extendSession"
  /\ resp.status = "Success"
  /\ sessions[resp.sessionId].extendedDate = clock
  /\ sessions[resp.sessionId].creationDate < clock
  /\ sessions[resp.sessionId].authToken = 2
  /\ UserOfSession(resp.sessionId).deleted

\* a session extended for a suspended user, after a sign-out that stays in force
C31_WitnessSuspended ==
  /\ resp.op = "extendSession"
  /\ resp.status = "Success"
  /\ sessions[resp.sessionId].invalidated
  /\ UserOfSession(resp.sessionId).suspendedAt # NoTime

(* ================== claims: forgotPassword's write ==================== *)
\* what a client sends back as the decrypted token: the base64 form of a
\* challenge, or a challenge in another encoding
ProvidedForgotPasswordTokens == {base64(m) : m \in Messages} \cup {<<"hex", m>> : m \in Messages}

\* the username is signed up, and signed up again while its seed is not saved,
\* which replaces the record by one with a new user id; two requests at a time
\* ask for the challenge and answer it
NextForgot ==
  \/ AllIdle /\ signUp("app1", "alice", "pw1", "pk1", "a@x")
  \/ signUp("app1", "alice", "pw2", "pk2", "a@x")
  \/ \E p \in Procs, m \in Messages :
       /\ p = 2 => procs[1].pc # "idle" /\ m = "m2"
       /\ generateForgotPasswordToken(p, "app1", "alice", m)
  \/ \E p \in Procs, given \in ProvidedForgotPasswordTokens : forgotPassword(p, given)
  \/ Tick

SpecForgot == InitPassword /\ [][NextForgot]_vars

\* the step stores this temp password, and nothing else, on the record under key
StoresTempPassword(key, tempPasswordToken) ==
  users' = [users EXCEPT ![key].tempPasswordToken = sha256(tempPasswordToken),
                         ![key].tempPasswordCreationDate = clock]

\* the step is request p's forgotPassword answering the challenge with given
ForgotPasswordStep(p, given) ==
  /\ procs[p].pc = "forgotPassword"
  /\ forgotPassword(p, given)

\* C32: forgotPassword given anything but the base64 form of the challenge
\* answers Unauthorized 'KeyNotValid', writes nothing and sends no email; given
\* the base64 form it stores the hash and the creation time of a new temp
\* password if the record under the username still has the user id read, and
\* sends the email only after that write; otherwise it writes and sends nothing.
C32_ForgotPasswordWrite ==
  [][\A p \in Procs, given \in ProvidedForgotPasswordTokens :
       ForgotPasswordStep(p, given) =>
         LET q == procs[p]
         IN IF given # base64(q.forgotPasswordToken)
            THEN /\ resp'.status = "Unauthorized" /\ resp'.message = "KeyNotValid"
                 /\ users' = users
                 /\ ~resp'.emailed
            ELSE IF users[q.key].exists /\ users[q.key].userId = q.user.userId
            THEN /\ resp'.status = "Success"
                 /\ resp'.emailed
                 /\ StoresTempPassword(q.key, resp'.tempPasswordToken)
                 /\ users'[q.key].tempPasswordToken # users[q.key].tempPasswordToken
            ELSE /\ resp'.status = "Internal Server Error"
                 /\ users' = users
                 /\ ~resp'.emailed]_vars

\* a temp password stored and emailed
C32_Witness ==
  /\ resp.op = "forgotPassword"
  /\ resp.status = "Success"
  /\ resp.emailed
  /\ users[resp.key].tempPasswordToken = sha256(resp.tempPasswordToken)
  /\ users[resp.key].tempPasswordCreationDate = clock

\* a wrong answer refused with no temp password stored
C32_WitnessMismatch ==
  /\ resp.op = "forgotPassword"
  /\ resp.status = "Unauthorized"
  /\ resp.message = "KeyNotValid"
  /\ users[resp.key].exists
  /\ users[resp.key].tempPasswordToken = NoHash

\* the right answer for a user whose record another sign-up has replaced
C32_WitnessReplaced ==
  /\ resp.op = "forgotPassword"
  /\ resp.status = "Internal Server Error"
  /\ users[resp.key].userId = 2
  /\ users[resp.key].tempPasswordToken = NoHash

(* ============ claims: the temp password after a password change ======= *)
\* one user who forgets the password pw1, is sent a temp password, changes the
\* password to pw2 (with or without a new username) after a check of pw1 or of
\* the temp password, and signs in with the temp password on the same or a
\* later day; one request at a time
NextRotate ==
  \/ /\ nextUserId = 1
     /\ signUp("app1", "alice", "pw1", "pk1", "a@x")
  \/ /\ Quiet
     /\ users[<<"app1", "alice">>].passwordToken = sha256("pw1")
     /\ generateForgotPasswordToken(1, "app1", "alice", "m1")
  \/ forgotPassword(1, base64("m1"))
  \/ \E username \in {NoStr, "bob"}, pw \in {"pw1"} \cup TempPasswordTokens :
       /\ Quiet
       /\ nextUserId > 1
       /\ \A k \in UserKeys : users[k].attempts <= 0 /\ hist.wrongInRow[k] = 0
       /\ getUserByUserId(1).passwordToken = sha256("pw1")
       /\ updateUserRead(1, 1, username, pw, "pw2")
  \/ updateUserWrite(1)
  \/ \E username \in {"Alice", "bob"}, pw \in TempPasswordTokens :
       /\ Quiet
       /\ \A k \in UserKeys : users[k].attempts <= 0 /\ hist.wrongInRow[k] = 0
       /\ signIn("app1", username, pw)
  \/ \E w \in BagToSet(pending) : ApplyBookkeeping(w)
  \/ Tick

SpecRotate == InitPassword /\ [][NextRotate]_vars

\* the latest step is a sign-in that the stored temp password has passed
SignedInWithTempPassword ==
  /\ resp.op = "signIn"
  /\ resp.status = "Success"
  /\ resp.usedTempPassword

\* C33: the temp password is stored while the password is pw1, and the password
\* only ever changes to pw2; once updateUser has changed it, a password check
\* with the temp password stored before the change does not succeed: every
\* sign-in that the temp password passes is of a user whose password is still pw1.
C33_OldTempPasswordRotatedOut ==
  SignedInWithTempPassword => users[resp.key].passwordToken = sha256("pw1")

\* updateUser leaves the temp password of the record as it was
TempPasswordKeptByUpdateUser ==
  [][resp'.op = "updateUser" =>
       \A userId \in UserIds :
         getUserByUserId(userId).exists /\ getUserByUserIdCount(userId) = "one" =>
           \E k \in UserKeys :
             /\ users'[k].exists
             /\ users'[k].userId = userId
             /\ users'[k].tempPasswordToken = getUserByUserId(userId).tempPasswordToken
             /\ users'[k].tempPasswordCreationDate =
                  getUserByUserId(userId).tempPasswordCreationDate]_vars

(* ============= claims: more than one item for a unique key ============ *)
\* a store that holds what the code calls "this should never happen": two
\* users and two sessions of app1, where the second session carries its own auth
\* token or that of the first, and the second user has its own user id or that
\* of the first
InitViolation ==
  /\ clock = 0
  /\ \E sameAuthToken \in BOOLEAN, sameUserId \in BOOLEAN :
       /\ users = [k \in UserKeys |->
                     IF k = <<"app1", "alice">> THEN SignedUp(1, "pw1", "pk1")
                     ELSE IF k = <<"app1", "bob">>
                     THEN SignedUp(IF sameUserId THEN 1 ELSE 2, "pw1", "pk1")
                     ELSE NoUser]
       /\ sessions = [t \in Tokens |->
                        IF t \in {1, 3}
                        THEN [exists |-> TRUE,
                              authToken |-> IF t = 1 \/ sameAuthToken THEN 2 ELSE 4,
                              userId |-> IF t = 1 THEN 1 ELSE 2, appId |-> "app1",
                              creationDate |-> 0, extendedDate |-> NoTime,
                              invalidated |-> FALSE, ttl |-> SECONDS_IN_A_DAY]
                        ELSE NoSession]
  /\ apps = [a \in AppIds |-> PlainApp(IF a = "app1" THEN "adm1" ELSE "adm2")]
  /\ admins = [a \in AdminIds |-> PaidAdmin]
  /\ nextUserId = 3
  /\ nextToken = 5
  /\ nextTemp = 1
  /\ pending = EmptyBag
  /\ procs = [p \in Procs |-> NoProc]
  /\ resp = [op |-> "none"]
  /\ hist = [fresh |-> NoFresh, wrongInRow |-> [k \in UserKeys |-> 0],
             proofs |-> [u \in UserIds |-> [made |-> 0, ok |-> 0]]]

\* either admin verifies the auth tokens while the sessions end and expire and
\* the users are deleted
NextViolation ==
  \/ \E adminId \in AdminIds, authToken \in {2, 4} : verifyAuthToken(adminId, authToken)
  \/ \E sessionId \in {1, 3} : signOut(sessionId)
  \/ \E userId \in UserIds : deleteUserController(userId)
  \/ Tick

SpecViolation == InitViolation /\ [][NextViolation]_vars

\* the latest step is a verifyAuthToken whose query of the auth-token index
\* returned more than one session
TooManySessionsFound ==
  /\ resp.op = "verifyAuthToken"
  /\ resp.lookedUp
  /\ Cardinality(SessionsWithAuthToken(resp.authToken)) > 1

\* the latest step is a verifyAuthToken whose query of the user-id index, for
\* the user of the one valid session found, returned more than one user
TooManyUsersFound ==
  /\ resp.op = "verifyAuthToken"
  /\ resp.lookedUp
  /\ Cardinality(SessionsWithAuthToken(resp.authToken)) = 1
  /\ _validateSession(VerifiedSession, clock) = "ok"
  /\ getUserByUserIdCount(VerifiedSession.userId) = "many"

\* C34: a verifyAuthToken that finds more than one session for the auth token,
\* or more than one user for the session's user id, has logged an entry of
\* fatal severity and answers Internal Server Error.
C34_IntegrityViolationLoggedFatal ==
  TooManySessionsFound \/ TooManyUsersFound =>
    resp.fatal /\ resp.status = "Internal Server Error"

\* both cases are raised, not swallowed: the answer is Internal Server Error;
\* more than one user is logged as fatal
IntegrityViolationRaised ==
  /\ TooManySessionsFound \/ TooManyUsersFound => resp.status = "Internal Server Error"
  /\ TooManyUsersFound => resp.fatal
  /\ resp.op = "verifyAuthToken" /\ resp.fatal => TooManyUsersFound

(* ============ claims: the suspension and the counter ================== *)
\* C35: every user record that has suspendedAt set has a counter of incorrect
\* attempts at or above the limit, also while issued updates have not landed.
C35_SuspendedOnlyAtLimit ==
  \A k \in UserKeys :
    users[k].exists /\ users[k].suspendedAt # NoTime =>
      users[k].attempts >= MAX_INCORRECT_PASSWORD_GUESSES

(* ================ claims: sign-in of a deleted user =================== *)
\* one user, deleted at some point, who signs in with the password and with a
\* wrong one, the counter being unset or near the limit; a sign-in that is not
\* a failing check starts when the updates issued before it have landed
NextDeleted ==
  \/ \E pw \in PasswordTokens :
       /\ ChecksCounted \in {0} \cup (MAX_INCORRECT_PASSWORD_GUESSES - 1)..(MaxAttempts - 1)
       /\ pw # "pw2" => Quiet
       /\ signIn("app1", "Alice", pw)
  \/ deleteUserController(1)
  \/ \E w \in BagToSet(pending) : ApplyBookkeeping(w)
  \/ Tick

SpecDeleted == InitIncrement /\ [][NextDeleted]_vars

\* the step is a sign-in of a user whose record is soft-deleted
SignInOfDeletedUser ==
  /\ resp'.op = "signIn"
  /\ users[resp'.key].exists
  /\ users[resp'.key].deleted

\* the original statement: every sign-in of a soft-deleted user with the
\* correct password ends in Forbidden 'User pending deletion'
C36_CorrectPasswordIsForbidden ==
  [][SignInOfDeletedUser /\ sha256(resp'.passwordToken) = users[resp'.key].passwordToken =>
       /\ resp'.status = "Forbidden"
       /\ resp'.message = "User pending deletion"
       /\ sessions' = sessions]_vars

\* C36: a signIn of a soft-deleted user never succeeds and writes no session;
\* when its password check passes it ends in Forbidden 'User pending deletion',
\* and while the lockout is in force it ends, whatever the password, in
\* Unauthorized 'PasswordAttemptLimitExceeded'.
C36_DeletedUserNeverSignsIn ==
  [][SignInOfDeletedUser =>
       /\ sessions' = sessions
       /\ nextToken' = nextToken
       /\ resp'.status # "Success"
       /\ resp'.sessionId = NoId
       /\ resp'.check = "none" =>
            resp'.status = "Forbidden" /\ resp'.message = "User pending deletion"
       /\ limitExceeded(users[resp'.key], clock) =>
            resp'.status = "Unauthorized" /\ resp'.message = "PasswordAttemptLimitExceeded"
       /\ ~limitExceeded(users[resp'.key], clock)
            /\ sha256(resp'.passwordToken) = users[resp'.key].passwordToken =>
              resp'.check = "none"]_vars

\* the deleted user has given the correct password and was refused as deleted
C36_Witness ==
  /\ resp.op = "signIn"
  /\ users[resp.key].deleted
  /\ sha256(resp.passwordToken) = users[resp.key].passwordToken
  /\ resp.status = "Forbidden"
  /\ resp.message = "User pending deletion"
  /\ \A t \in Tokens : ~sessions[t].exists

\* the deleted user has given the correct password while locked out
C36_WitnessLockedOut ==
  /\ resp.op = "signIn"
  /\ users[resp.key].deleted
  /\ sha256(resp.passwordToken) = users[resp.key].passwordToken
  /\ resp.status = "Unauthorized"
  /\ resp.message = "PasswordAttemptLimitExceeded"

(* ========== claims: only createSession makes a valid session ========== *)
\* one user and the session of the sign-up; two requests at a time are
\* authenticated on it and extend it, any session id issued so far or never
\* issued is signed out, days pass and the store removes the session once its
\* ttl has passed, also between the authentication of a request and its update
NextSweep ==
  \/ /\ ~users[<<"app1", "alice">>].exists
     /\ signUp("app1", "alice", "pw1", "pk1", "a@x")
  \/ \E p \in Procs, sessionId \in PresentableSessionIds :
       authenticateUser(p, sessionId, "app1")
  \/ \E p \in Procs : extendSession(p)
  \/ \E sessionId \in PresentableSessionIds : signOut(sessionId)
  \/ \E sessionId \in Tokens : ExpirySweep(sessionId)
  \/ Tick

SpecSweep == InitPassword /\ [][NextSweep]_vars

\* the step is the createSession of a sign-up or sign-in writing this session
CreatedInStep(sessionId) ==
  /\ resp'.op \in {"signUp", "signIn"}
  /\ resp'.status = "Success"
  /\ resp'.sessionId = sessionId

\* C37: a session that passes _validateSession after a step either was written
\* by createSession in that step or was, before the step, a record with the
\* same user-id, auth token and creation date; so signOut and extendSession on
\* a session id with no record, never created or removed by the store's expiry,
\* leave a record that fails _validateSession.
C37_OnlyCreateSessionMakesValid ==
  [][\A t \in Tokens :
       /\ _validateSession(sessions'[t], clock') = "ok" =>
            \/ CreatedInStep(t)
            \/ /\ sessions[t].exists
               /\ sessions[t].userId = sessions'[t].userId
               /\ sessions[t].authToken = sessions'[t].authToken
               /\ sessions[t].creationDate = sessions'[t].creationDate
       /\ resp'.op \in {"signOut", "extendSession"} /\ resp'.sessionId = t
            /\ ~sessions[t].exists =>
              /\ sessions'[t].exists
              /\ _validateSession(sessions'[t], clock') # "ok"]_vars

\* a request authenticated before the store removed the session has extended
\* it afterwards: the record it made has no user-id and is not valid
C37_Witness ==
  /\ resp.op = "extendSession"
  /\ sessions[resp.sessionId].exists
  /\ sessions[resp.sessionId].creationDate = NoTime
  /\ sessions[resp.sessionId].extendedDate = clock
  /\ ~sessions[resp.sessionId].invalidated
  /\ _validateSession(sessions[resp.sessionId], clock) = "isNotUserSession"

\* a session id that was never issued has been signed out
C37_WitnessNeverCreated ==
  /\ resp.op = "signOut"
  /\ resp.sessionId = UnissuedSessionId
  /\ sessions[resp.sessionId].exists
  /\ _validateSession(sessions[resp.sessionId], clock) = "invalidated"

(* ============ claims: the cleared flag stays cleared ================== *)
\* C38: once a record of a user id has no seedNotSavedYet, no step leaves a
\* record of that user id on which the flag is present.
C38_SeedFlagStaysCleared ==
  [][\A userId \in UserIds :
       (\E k \in UsersWithUserId(userId) : ~users[k].seedNotSavedYet) =>
         \A k \in UserKeys :
           users'[k].exists /\ users'[k].userId = userId => ~users'[k].seedNotSavedYet]_vars

\* the step is the write of an updateUser that changes the username
RenameWriteStep == \E p \in Procs : RenameWrite(p)

\* every step other than the write of a rename keeps the flag cleared
SeedFlagStaysClearedWithoutRename ==
  [][~RenameWriteStep =>
       \A userId \in UserIds :
         (\E k \in UsersWithUserId(userId) : ~users[k].seedNotSavedYet) =>
           \A k \in UserKeys :
             users'[k].exists /\ users'[k].userId = userId => ~users'[k].seedNotSavedYet]_vars

(* ============ claims: sessions of an overwritten sign-up ============== *)
\* the username is signed up, and signed up again while its seed is not saved;
\* the sessions issued are authenticated and their users prove their key on one
\* connection, while a second request renames a user
NextOverwrite ==
  \/ signUp("app1", "alice", "pw1", "pk1", "a@x")
  \/ \E sessionId \in PresentableSessionIds : authenticateUser(1, sessionId, "app1")
  \/ /\ procs[1].pc = "authenticated"
     /\ hist.proofs[procs[1].user.userId].made = 0
     /\ validateKey(1, "m1", base64("m1"))
  \/ extendSession(1)
  \/ \E userId \in UserIds :
       /\ userId < nextUserId
       /\ updateUserRead(2, userId, "bob", NoStr, NoStr)
  \/ updateUserWrite(2)

SpecOverwrite == InitPassword /\ [][NextOverwrite]_vars

\* the step is a sign-up that overwrites the record under its username
OverwritingSignUp ==
  /\ resp'.op = "signUp"
  /\ resp'.status = "Success"
  /\ users[resp'.key].exists

\* the user id has been issued and no user record carries it
Unresolved(userId) == userId < nextUserId /\ UsersWithUserId(userId) = {}

\* C39: a signUp that overwrites a record leaves no record with the overwritten
\* user id, and a user id that no record carries is never carried again; every
\* authenticateUser on a session of such a user id answers Unauthorized and
\* does not proceed, while the session of the new user id authenticates.
C39_OverwrittenUserIsSignedOut ==
  [][/\ OverwritingSignUp =>
          /\ users[resp'.key].seedNotSavedYet
          /\ users'[resp'.key].userId = resp'.userId
          /\ users[resp'.key].userId # resp'.userId
          /\ \A k \in UserKeys :
               ~(users'[k].exists /\ users'[k].userId = users[resp'.key].userId)
     /\ \A userId \in UserIds :
          Unresolved(userId) =>
            \A k \in UserKeys : ~(users'[k].exists /\ users'[k].userId = userId)
     /\ resp'.op = "authenticateUser" /\ resp'.sessionId \in Tokens
          /\ sessions[resp'.sessionId].exists
          /\ Unresolved(sessions[resp'.sessionId].userId) =>
            resp'.status = "Unauthorized" /\ ~resp'.next]_vars

\* the session of the overwritten sign-up, still valid as a session, has been
\* refused after the second sign-up
C39_Witness ==
  /\ resp.op = "authenticateUser"
  /\ resp.status = "Unauthorized"
  /\ resp.sessionId \in Tokens
  /\ _validateSession(sessions[resp.sessionId], clock) = "ok"
  /\ sessions[resp.sessionId].userId = 1
  /\ Unresolved(1)
  /\ users[<<"app1", "alice">>].userId = 2

\* the session of the second sign-up has been authenticated
C39_WitnessNewUser ==
  /\ resp.op = "authenticateUser"
  /\ resp.next
  /\ sessions[resp.sessionId].userId = 2
  /\ Unresolved(1)

(* ================= claims: the limit of trial users =================== *)
\* the user ids of the users who signed up before the admin stopped paying
EarlierUserIds == {MaxUsers + 1, MaxUsers + 2}

\* the two users of the app
TwoUsers ==
  [k \in UserKeys |->
     IF k = <<"app1", "alice">> THEN SignedUp(MaxUsers + 1, "pw1", "pk1")
     ELSE IF k = <<"app1", "bob">> THEN SignedUp(MaxUsers + 2, "pw1", "pk1")
     ELSE NoUser]

\* app1 of an admin whose subscription is unpaid, past due or set to be
\* cancelled, with two users
InitTrial ==
  /\ clock = 0
  /\ users = TwoUsers
  /\ sessions = [t \in Tokens |-> NoSession]
  /\ apps = [a \in AppIds |-> IF a = "app1" THEN PlainApp("adm1") ELSE NoApp]
  /\ \E unpaid \in {[PaidAdmin EXCEPT !.saasStatus = "past_due"],
                    [PaidAdmin EXCEPT !.cancelSaasAt = 1]} :
       admins = [a \in AdminIds |-> IF a = "adm1" THEN unpaid ELSE NoAdmin]
  /\ nextUserId = 1
  /\ nextToken = 1
  /\ nextTemp = 1
  /\ pending = EmptyBag
  /\ procs = [p \in Procs |-> NoProc]
  /\ resp = [op |-> "none"]
  /\ hist = [fresh |-> NoFresh, wrongInRow |-> [k \in UserKeys |-> 0],
             proofs |-> [u \in UserIds |-> [made |-> 0, ok |-> 0]]]

\* two sign-ups at a time, each counting the users of the app before its put,
\* while users of the app are deleted
NextTrial ==
  \/ \E p \in Procs, username \in {"carol", "dave"} :
       signUpValidate(p, "app1", username, "pw1", "pk1", "a@x")
  \/ \E p \in Procs : signUpPut(p)
  \/ \E userId \in EarlierUserIds : deleteUserController(userId)

SpecTrial == InitTrial /\ [][NextTrial]_vars

\* the admin of the app has not paid: status not 'active', or a cancel-at set
Unpaid(appId) ==
  LET admin == findAdminByAdminId(getAppByAppId(appId).adminId)
  IN admin.saasStatus # "active" \/ admin.cancelSaasAt # NoTime

\* C40: the non-deleted users of an app whose admin has not paid are never
\* more than the limit of trial users.
C40_TrialLimit ==
  \A appId \in AppIds :
    Unpaid(appId) => countNonDeletedAppUsers(appId) <= LIMIT_NUM_TRIAL_USERS

\* the count is checked where signUp reads it: a sign-up passes its check of
\* the subscription if and only if it counts fewer users than the limit, and
\* one that is refused there writes nothing
TrialLimitCheckedBeforePut ==
  [][resp'.op = "signUp" /\ resp'.status \in {"Pending", "Payment Required"} =>
       /\ resp'.status = "Payment Required" <=>
            countNonDeletedAppUsers(resp'.appId) >= LIMIT_NUM_TRIAL_USERS
       /\ resp'.status = "Payment Required" =>
            /\ resp'.message = "TrialExceededLimit"
            /\ users' = users
            /\ sessions' = sessions]_vars

====
